---- MODULE Spec2Model ----
(***************************************************************************)
(* Model of the composite-shape overlap engine of hoomd/hpmc/ShapeUnion.h: *)
(* check_circumsphere_overlap, test_narrow_phase_overlap, query_node and    *)
(* test_overlap over ShapeUnion<Shape, capacity>.                           *)
(*                                                                         *)
(* Geometry is one-dimensional and integer: positions and offsets are      *)
(* points of the x axis, a quaternion is 1 (identity) or -1 (the half turn  *)
(* that maps x to -x), an oriented bounding box is an interval [lo, hi].    *)
(* The member shape kind is the sphere (ShapeSphere); the hierarchy is the  *)
(* GPUTree of the union_params.  GPUTree, OBB and ShapeSphere are           *)
(* collaborators whose code is outside the files modelled here; they       *)
(* follow the interface table of the specification.                        *)
(***************************************************************************)
EXTENDS Integers, Sequences, FiniteSets, TLC

VARIABLES a, b, r_ab, degen, stride, pc, cur_leaf, ret, err, errIn, calls,
          circ, qn, nl, pdata, op

vars == <<a, b, r_ab, degen, stride, pc, cur_leaf, ret, err, errIn, calls,
          circ, qn, nl, pdata, op>>

\* the state of the traversal run step by step (qn) and of the neighbor list
\* (nl, pdata, op)
otherVars == <<qn, nl, pdata, op>>

\* the value of a variable of a part of the program that is not running
NoCall == "none"

Idle == qn = NoCall /\ nl = NoCall /\ pdata = NoCall /\ op = NoCall

(***************************************************************************)
(* Bounds of the model.                                                    *)
(***************************************************************************)
\* largest spacing between consecutive members of one composite
MaxD == 2
\* largest |r_ab|
MaxR == 3
\* largest inflation of a leaf box beyond the tight bound of its members
MaxPad == 1
\* largest number of parallel workers (blockDim.x)
MaxStride == 2
\* largest offset between the two spheres of a dumbbell
MaxOffset == 4
\* largest distance between the centers of two dumbbells
MaxSeparation == 7
\* largest half length H of the periodic box [-H, H) of the particle data
MaxHalf == 2
\* largest time step handed to compute
MaxTimestep == 2
\* largest number of exclusions added to one list
MaxExclusions == 1
\* largest half length of a side of the box that is binned along x, y and z
MaxBinHalf == 3
\* largest tag of the particles whose exclusions with particle 0 are added
MaxTag == 5

(***************************************************************************)
(* Small helpers.                                                          *)
(***************************************************************************)
ZeroBased(s) == [i \in 0..(Len(s) - 1) |-> s[i + 1]]

SetMin(S) == CHOOSE x \in S : \A y \in S : x <= y

SetMax(S) == CHOOSE x \in S : \A y \in S : x >= y

RECURSIVE BitAnd(_, _)
\* the C operator & on unsigned int
BitAnd(x, y) ==
    IF x = 0 \/ y = 0 THEN 0
    ELSE (x % 2) * (y % 2) + 2 * BitAnd(x \div 2, y \div 2)

(***************************************************************************)
(* vec3 / quat in one dimension.                                           *)
(***************************************************************************)
Quats == {1, -1}

conj(q) == q

rotate(q, v) == q * v

dot(u, v) == u * v

(***************************************************************************)
(* ShapeSphere: the member shape kind.                                     *)
(***************************************************************************)
Radii == {1}

\* Shape(orientation, params)
Shape(q, params) == [orientation |-> q, params |-> params]

\* a sphere has no orientation
hasOrientation(shape) == FALSE

\* the degeneracy signal of the primitive test, by the mode of the run:
\* "none": never, "tangent": at exact contact
Degenerate(r_ij, shape_i, shape_j, dg) ==
    /\ dg = "tangent"
    /\ dot(r_ij, r_ij) = (shape_i.params + shape_j.params) * (shape_i.params + shape_j.params)

\* test_overlap(r_ab, ShapeSphere a, ShapeSphere b, err): the boolean and the
\* counter after the call
PrimTestOverlap(r_ij, shape_i, shape_j, e, dg) ==
    LET rsq == dot(r_ij, r_ij)
        RaRb == shape_i.params + shape_j.params
    IN [overlap |-> rsq < RaRb * RaRb,
        err |-> IF Degenerate(r_ij, shape_i, shape_j, dg) THEN e + 1 ELSE e]

(***************************************************************************)
(* OBB in one dimension: an interval.                                      *)
(***************************************************************************)
\* OBB::affineTransform: rotate, then translate
affineTransform(obb, q, t) ==
    IF q = 1 THEN [lo |-> obb.lo + t, hi |-> obb.hi + t]
    ELSE [lo |-> t - obb.hi, hi |-> t - obb.lo]

\* detail::overlap(OBB, OBB): no separating axis
overlap(x, y) == ~(x.hi < y.lo \/ y.hi < x.lo)

(***************************************************************************)
(* GPUTree: nodes in pre-order, 0 the root; left[n] the left child,        *)
(* skip[n] the node that follows n's subtree (the right sibling of a left  *)
(* child), leafNodes the leaves by leaf index, particles[n] the members    *)
(* listed at leaf n.                                                       *)
(***************************************************************************)
\* OBB_INVALID_NODE, 0xffffffff, written as the signed value of that bit pattern
InvalidNode == -1

Topologies ==
    [E   |-> [numNodes |-> 0, left |-> <<>>, skip |-> <<>>, leafNodes |-> <<>>,
              particles |-> <<>>],
     S1  |-> [numNodes |-> 1, left |-> <<InvalidNode>>, skip |-> <<1>>, leafNodes |-> <<0>>,
              particles |-> << <<0>> >>],
     S2  |-> [numNodes |-> 1, left |-> <<InvalidNode>>, skip |-> <<1>>, leafNodes |-> <<0>>,
              particles |-> << <<0, 1>> >>],
     T2  |-> [numNodes |-> 3, left |-> <<1, InvalidNode, InvalidNode>>, skip |-> <<3, 2, 3>>,
              leafNodes |-> <<1, 2>>,
              particles |-> << <<>>, <<0>>, <<1>> >>],
     T2w |-> [numNodes |-> 3, left |-> <<1, InvalidNode, InvalidNode>>, skip |-> <<3, 2, 3>>,
              leafNodes |-> <<1, 2>>,
              particles |-> << <<>>, <<1, 0>>, <<2>> >>],
     T3L |-> [numNodes |-> 5,
              left |-> <<1, 2, InvalidNode, InvalidNode, InvalidNode>>,
              skip |-> <<5, 4, 3, 4, 5>>,
              leafNodes |-> <<2, 3, 4>>,
              particles |-> << <<>>, <<>>, <<0>>, <<1>>, <<2>> >>],
     T3R |-> [numNodes |-> 5,
              left |-> <<1, InvalidNode, 3, InvalidNode, InvalidNode>>,
              skip |-> <<5, 2, 5, 4, 5>>,
              leafNodes |-> <<1, 3, 4>>,
              particles |-> << <<>>, <<0>>, <<>>, <<1>>, <<2>> >>],
     T4  |-> [numNodes |-> 7,
              left |-> <<1, 2, InvalidNode, InvalidNode, 5, InvalidNode, InvalidNode>>,
              skip |-> <<7, 4, 3, 4, 7, 6, 7>>,
              leafNodes |-> <<2, 3, 5, 6>>,
              particles |-> << <<>>, <<>>, <<0>>, <<1>>, <<>>, <<2>>, <<3>> >>]]

TopoNames == DOMAIN Topologies

\* the members listed in the subtree of node n
SubtreeMembers(topo, n) ==
    UNION {{topo.particles[m + 1][k] : k \in 1..Len(topo.particles[m + 1])} :
              m \in n..(topo.skip[n + 1] - 1)}

\* the number of members of a topology
MemberCount(topo) ==
    IF topo.numNodes = 0 THEN 0 ELSE Cardinality(SubtreeMembers(topo, 0))

\* the box of node n: the tight interval around its members' spheres, a leaf's
\* box inflated by pad
NodeOBB(topo, n, mpos, mparams, pad) ==
    LET ms == SubtreeMembers(topo, n)
        p == IF topo.left[n + 1] = InvalidNode THEN pad ELSE 0
    IN [lo |-> SetMin({mpos[k] - mparams[k] : k \in ms}) - p,
        hi |-> SetMax({mpos[k] + mparams[k] : k \in ms}) + p]

BuildTree(topo, mpos, mparams, pad) ==
    [numNodes |-> topo.numNodes,
     left |-> ZeroBased(topo.left),
     skip |-> ZeroBased(topo.skip),
     leafNodes |-> ZeroBased(topo.leafNodes),
     particles |-> [n \in 0..(topo.numNodes - 1) |-> ZeroBased(topo.particles[n + 1])],
     obb |-> [n \in 0..(topo.numNodes - 1) |-> NodeOBB(topo, n, mpos, mparams, pad)]]

getNumNodes(tree) == tree.numNodes

getNumLeaves(tree) == Cardinality(DOMAIN tree.leafNodes)

getLeafNode(tree, i) == tree.leafNodes[i]

getLeftChild(tree, n) == tree.left[n]

\* advanceNode(cur_node, skip = true)
advanceNode(tree, n) == tree.skip[n]

isLeaf(tree, n) == tree.left[n] = InvalidNode

getOBB(tree, n) == tree.obb[n]

getNumParticles(tree, n) == Cardinality(DOMAIN tree.particles[n])

getParticle(tree, n, i) == tree.particles[n][i]

(***************************************************************************)
(* union_params and ShapeUnion.                                            *)
(***************************************************************************)
MaskModes == {"shared", "disjoint", "mixed"}

\* the interaction mask of member k of the composite on side s
MaskOf(s, mm, k) ==
    CASE mm = "shared"   -> 1
      [] mm = "disjoint" -> IF s = "a" THEN 1 ELSE 2
      [] mm = "mixed"    -> IF s = "a" THEN (IF k % 2 = 0 THEN 1 ELSE 2)
                                       ELSE (IF k % 2 = 0 THEN 2 ELSE 3)

\* union_params(N, managed) filled in: member k at local position k * d
union_params(tn, d, rad, s, mm, pad) ==
    LET topo == Topologies[tn]
        n == MemberCount(topo)
        mpos == [k \in 0..(n - 1) |-> k * d]
        mparams == [k \in 0..(n - 1) |-> rad]
    IN [tree |-> BuildTree(topo, mpos, mparams, pad),
        mpos |-> mpos,
        morientation |-> [k \in 0..(n - 1) |-> 1],
        mparams |-> mparams,
        moverlap |-> [k \in 0..(n - 1) |-> MaskOf(s, mm, k)],
        diameter |-> IF n = 0 THEN 0 ELSE 2 * ((n - 1) * d + rad),
        N |-> n,
        ignore |-> 0]

\* ShapeUnion(orientation, params); tag names the instance in the call log
ShapeUnion(q, params, tag) == [orientation |-> q, members |-> params, tag |-> tag]

\* an instance whose orientation was overwritten by the call
AfterCall_Reoriented(inst) == [inst EXCEPT !.orientation = -@]

\* an instance after a call that took it as const ShapeUnion<Shape>&, its
\* members being a const union_params&: no statement of lines 163-329 assigns
\* through either
AfterCall(inst) == inst

\* ShapeUnion::getCircumsphereDiameter (lines 126-131)
getCircumsphereDiameter(inst) == inst.members.diameter

\* line 171 with < for <=
check_circumsphere_overlap_Strict(r, a_, b_) ==
    LET dr == r
        rsq == dot(dr, dr)
        DaDb == getCircumsphereDiameter(a_) + getCircumsphereDiameter(b_)
    IN rsq * 4 < DaDb * DaDb

\* line 170 with a's diameter alone
check_circumsphere_overlap_OnlyA(r, a_, b_) ==
    LET dr == r
        rsq == dot(dr, dr)
        DaDb == getCircumsphereDiameter(a_)
    IN rsq * 4 <= DaDb * DaDb

\* check_circumsphere_overlap (lines 163-172)
check_circumsphere_overlap(r, a_, b_) ==
    LET dr == r
        rsq == dot(dr, dr)
        DaDb == getCircumsphereDiameter(a_) + getCircumsphereDiameter(b_)
    IN rsq * 4 <= DaDb * DaDb

\* the geometries of the composite types: a topology and a member spacing
\* (the spacing is irrelevant with fewer than two members)
Geometries ==
    {g \in TopoNames \X (1..MaxD) : MemberCount(Topologies[g[1]]) >= 2 \/ g[2] = 1}

(***************************************************************************)
(* test_narrow_phase_overlap (ShapeUnion.h:174-226).                       *)
(* The result of a scan is a record: result, the boolean returned; tested, *)
(* the member pairs handed to the primitive test, in order; signals, the   *)
(* number of degeneracy signals the primitive tests raised.                *)
(***************************************************************************)
\* line 181: dr rotated into b's frame
NarrowRab(dr, b_) == rotate(conj(b_.orientation), dr)

\* lines 195-197: the transient shape of member ishape of a
ShapeI(a_, b_, ishape) ==
    LET shape_i == Shape(1, a_.members.mparams[ishape])
    IN IF hasOrientation(shape_i)
       THEN [shape_i EXCEPT !.orientation =
                conj(b_.orientation) * a_.orientation * a_.members.morientation[ishape]]
       ELSE shape_i

\* line 199 without a's orientation
PosI_NoRotA(a_, b_, ishape, rab) ==
    rotate(conj(b_.orientation), a_.members.mpos[ishape]) - rab

\* line 199: the position of member ishape of a in b's frame
PosI(a_, b_, ishape, rab) ==
    rotate(conj(b_.orientation) * a_.orientation, a_.members.mpos[ishape]) - rab

\* lines 208-210: the transient shape of member jshape of b
ShapeJ(b_, jshape) ==
    LET shape_j == Shape(1, b_.members.mparams[jshape])
    IN IF hasOrientation(shape_j)
       THEN [shape_j EXCEPT !.orientation = b_.members.morientation[jshape]]
       ELSE shape_j

\* line 215 without the gate
MaskPass_Always(overlap_i, overlap_j) == TRUE

\* line 215 comparing the masks for equality
MaskPass_Equal(overlap_i, overlap_j) == overlap_i = overlap_j

\* line 215: the mask gate
MaskPass(overlap_i, overlap_j) == BitAnd(overlap_i, overlap_j) # 0

\* line 217 without the position of b's member
PairVector_Origin(b_, jshape, pos_i) == -pos_i

\* line 217: the vector handed to the primitive test
PairVector(b_, jshape, pos_i) == b_.members.mpos[jshape] - pos_i

\* line 218 with a degenerate test counted as an overlap
PairHit_ErrCounts(t) == t.overlap \/ t.err > 0

\* line 218: the scan returns true when the primitive test does; t is the
\* primitive's outcome on the local counter of line 214
PairHit(t) == t.overlap

RECURSIVE NarrowScan(_, _, _, _, _, _, _, _, _)
\* lines 190-225: the two nested loops, from pair (i, j) on
NarrowScan(dr, a_, b_, cur_node_a, cur_node_b, i, j, acc, dg) ==
    LET na == getNumParticles(a_.members.tree, cur_node_a)
        nb == getNumParticles(b_.members.tree, cur_node_b)
    IN IF i >= na THEN [acc EXCEPT !.result = FALSE]
       ELSE IF j >= nb
       THEN NarrowScan(dr, a_, b_, cur_node_a, cur_node_b, i + 1, 0, acc, dg)
       ELSE
         LET ishape == getParticle(a_.members.tree, cur_node_a, i)
             shape_i == ShapeI(a_, b_, ishape)
             pos_i == PosI(a_, b_, ishape, NarrowRab(dr, b_))
             overlap_i == a_.members.moverlap[ishape]
             jshape == getParticle(b_.members.tree, cur_node_b, j)
             shape_j == ShapeJ(b_, jshape)
             overlap_j == b_.members.moverlap[jshape]
         IN IF MaskPass(overlap_i, overlap_j)
            THEN LET r_ij == PairVector(b_, jshape, pos_i)
                     t == PrimTestOverlap(r_ij, shape_i, shape_j, 0, dg)
                     acc2 == [acc EXCEPT !.tested = Append(@, <<ishape, jshape>>),
                                         !.signals = @ + t.err]
                 IN IF PairHit(t)
                    THEN [acc2 EXCEPT !.result = TRUE]
                    ELSE NarrowScan(dr, a_, b_, cur_node_a, cur_node_b, i, j + 1, acc2, dg)
            ELSE NarrowScan(dr, a_, b_, cur_node_a, cur_node_b, i, j + 1, acc, dg)

EmptyScan == [result |-> FALSE, tested |-> <<>>, signals |-> 0]

test_narrow_phase_overlap(dr, a_, b_, cur_node_a, cur_node_b, dg) ==
    NarrowScan(dr, a_, b_, cur_node_a, cur_node_b, 0, 0, EmptyScan, dg)

(***************************************************************************)
(* query_node (ShapeUnion.h:237-294).                                      *)
(* The record of a traversal extends the record of a scan by: leaves, the  *)
(* leaves of b the narrow phase ran on; boxes, the nodes of b whose box    *)
(* was tested; visited, the values taken by cur_node_b; and the arguments  *)
(* of the call (node, r, first, second).                                   *)
(***************************************************************************)
\* lines 251-254: a's box in b's body frame
TransformedOBB(cur_node_a, dr, a_, b_) ==
    affineTransform(getOBB(a_.members.tree, cur_node_a),
                    conj(b_.orientation) * a_.orientation,
                    rotate(conj(b_.orientation), -dr))

\* the record of a traversal after a narrow-phase scan n on leaf node_b
AddScan(acc, n, node_b) ==
    [acc EXCEPT !.result = n.result,
                !.tested = @ \o n.tested,
                !.signals = @ + n.signals,
                !.leaves = Append(@, node_b)]

\* lines 271, 275 without the box test
LeafTest_AnyLeaf(overlap_c, tree_b, child) == isLeaf(tree_b, child)

\* lines 271, 275: the narrow phase runs on a child that overlaps and is a leaf
LeafTest(overlap_c, tree_b, child) == overlap_c /\ isLeaf(tree_b, child)

\* lines 280-281 never descending
Traverse_Never(overlap_c, tree_b, child) == FALSE

\* lines 280-281
Traverse(overlap_c, tree_b, child) == overlap_c /\ ~isLeaf(tree_b, child)

\* line 283 with || for &&
PopNow_Or(traverse_l, traverse_r) == ~traverse_l \/ ~traverse_r

\* line 283: neither child is traversed, pop
PopNow(traverse_l, traverse_r) == ~traverse_l /\ ~traverse_r

\* lines 283-290 pushing the child that is traversed next
Transition_PushLeft(st, child_l, child_r, traverse_l, traverse_r) ==
    IF PopNow(traverse_l, traverse_r)
    THEN [st EXCEPT !.cur = st.stack[Len(st.stack)],
                    !.stack = SubSeq(st.stack, 1, Len(st.stack) - 1)]
    ELSE [st EXCEPT !.cur = IF traverse_l THEN child_l ELSE child_r,
                    !.stack = IF traverse_l /\ traverse_r
                              THEN Append(st.stack, child_l) ELSE st.stack]

\* lines 283-290 reading the top of the stack without removing it
Transition_Peek(st, child_l, child_r, traverse_l, traverse_r) ==
    IF PopNow(traverse_l, traverse_r)
    THEN [st EXCEPT !.cur = st.stack[Len(st.stack)]]
    ELSE [st EXCEPT !.cur = IF traverse_l THEN child_l ELSE child_r,
                    !.stack = IF traverse_l /\ traverse_r
                              THEN Append(st.stack, child_r) ELSE st.stack]

\* lines 283-290 pushing the right child twice
Transition_PushTwice(st, child_l, child_r, traverse_l, traverse_r) ==
    IF PopNow(traverse_l, traverse_r)
    THEN [st EXCEPT !.cur = st.stack[Len(st.stack)],
                    !.stack = SubSeq(st.stack, 1, Len(st.stack) - 1)]
    ELSE [st EXCEPT !.cur = IF traverse_l THEN child_l ELSE child_r,
                    !.stack = IF traverse_l /\ traverse_r
                              THEN st.stack \o <<child_r, child_r>> ELSE st.stack]

\* lines 283-290 descending into the right child when both qualify
Transition_RightFirst(st, child_l, child_r, traverse_l, traverse_r) ==
    IF PopNow(traverse_l, traverse_r)
    THEN [st EXCEPT !.cur = st.stack[Len(st.stack)],
                    !.stack = SubSeq(st.stack, 1, Len(st.stack) - 1)]
    ELSE [st EXCEPT !.cur = IF traverse_r THEN child_r ELSE child_l,
                    !.stack = IF traverse_l /\ traverse_r
                              THEN Append(st.stack, child_l) ELSE st.stack]

\* lines 283-290: the next current node and stack
Transition(st, child_l, child_r, traverse_l, traverse_r) ==
    IF PopNow(traverse_l, traverse_r)
    THEN [st EXCEPT !.cur = st.stack[Len(st.stack)],
                    !.stack = SubSeq(st.stack, 1, Len(st.stack) - 1)]
    ELSE [st EXCEPT !.cur = IF traverse_l THEN child_l ELSE child_r,
                    !.stack = IF traverse_l /\ traverse_r
                              THEN Append(st.stack, child_r) ELSE st.stack]

\* lines 263-290: one pass of the loop body from the state st = [cur, stack,
\* acc, returned]; returned is set when the body returns true
QueryStep(obb_a, dr, a_, b_, cur_node_a, st, dg) ==
    LET tree_b == b_.members.tree
        child_l == getLeftChild(tree_b, st.cur)
        child_r == advanceNode(tree_b, child_l)
        overlap_l == overlap(obb_a, getOBB(tree_b, child_l))
        overlap_r == overlap(obb_a, getOBB(tree_b, child_r))
        acc0 == [st.acc EXCEPT !.visited = Append(@, st.cur),
                               !.boxes = @ \o <<child_l, child_r>>]
        acc1 == IF LeafTest(overlap_l, tree_b, child_l)
                THEN AddScan(acc0, test_narrow_phase_overlap(dr, a_, b_, cur_node_a, child_l, dg),
                             child_l)
                ELSE acc0
        acc2 == IF ~acc1.result /\ LeafTest(overlap_r, tree_b, child_r)
                THEN AddScan(acc1, test_narrow_phase_overlap(dr, a_, b_, cur_node_a, child_r, dg),
                             child_r)
                ELSE acc1
        traverse_l == Traverse(overlap_l, tree_b, child_l)
        traverse_r == Traverse(overlap_r, tree_b, child_r)
    IN IF acc2.result
       THEN [st EXCEPT !.acc = acc2, !.returned = TRUE]
       ELSE Transition([st EXCEPT !.acc = acc2], child_l, child_r, traverse_l, traverse_r)

RECURSIVE QueryLoop(_, _, _, _, _, _, _)
\* lines 262-293: do ... while (cur_node_b != tree_b.getNumNodes())
QueryLoop(obb_a, dr, a_, b_, cur_node_a, st, dg) ==
    LET st2 == QueryStep(obb_a, dr, a_, b_, cur_node_a, st, dg)
    IN IF st2.returned THEN st2.acc
       ELSE IF st2.cur # getNumNodes(b_.members.tree)
       THEN QueryLoop(obb_a, dr, a_, b_, cur_node_a, st2, dg)
       ELSE [st2.acc EXCEPT !.result = FALSE]

\* the record of a traversal before anything ran
EmptyQuery(cur_node_a, r, a_, b_) ==
    [result |-> FALSE, tested |-> <<>>, signals |-> 0, leaves |-> <<>>,
     boxes |-> <<>>, visited |-> <<>>,
     node |-> cur_node_a, r |-> r, first |-> a_.tag, second |-> b_.tag]

\* lines 258-260 returning on the box test alone
TrivialQuery_BoxOnly(obb_a, dr, a_, b_, cur_node_a, acc0, dg) ==
    [acc0 EXCEPT !.boxes = <<0>>, !.result = overlap(obb_a, getOBB(b_.members.tree, 0))]

\* lines 258-260: the trivial case, b's hierarchy is one node
TrivialQuery(obb_a, dr, a_, b_, cur_node_a, acc0, dg) ==
    LET acc1 == [acc0 EXCEPT !.boxes = <<0>>]
    IN IF overlap(obb_a, getOBB(b_.members.tree, 0))
       THEN AddScan(acc1, test_narrow_phase_overlap(dr, a_, b_, cur_node_a, 0, dg), 0)
       ELSE acc1

query_node(cur_node_a, r, a_, b_, dg) ==
    LET dr == r
        tree_b == b_.members.tree
        obb_a == TransformedOBB(cur_node_a, dr, a_, b_)
        acc0 == EmptyQuery(cur_node_a, r, a_, b_)
    IN IF getNumNodes(tree_b) = 1
       THEN TrivialQuery(obb_a, dr, a_, b_, cur_node_a, acc0, dg)
       ELSE \* lines 245-249: cur_node_b = 0, the sentinel pushed
            QueryLoop(obb_a, dr, a_, b_, cur_node_a,
                      [cur |-> 0, stack |-> <<getNumNodes(tree_b)>>, acc |-> acc0,
                       returned |-> FALSE], dg)

(***************************************************************************)
(* test_overlap for ShapeUnion (ShapeUnion.h:296-329).                     *)
(***************************************************************************)
\* line 311 with < for <=
ADrives_Strict(a_, b_) == getNumLeaves(a_.members.tree) < getNumLeaves(b_.members.tree)

\* line 311: a's leaves drive
ADrives(a_, b_) == getNumLeaves(a_.members.tree) <= getNumLeaves(b_.members.tree)

\* lines 315-316
QueryFromA(cur_leaf_a, r, a_, b_, dg) ==
    query_node(getLeafNode(a_.members.tree, cur_leaf_a), r, a_, b_, dg)

\* lines 323-324 with the offset passed on as it came
QueryFromB_NoNegate(cur_leaf_b, r, a_, b_, dg) ==
    query_node(getLeafNode(b_.members.tree, cur_leaf_b), r, b_, a_, dg)

\* lines 323-324
QueryFromB(cur_leaf_b, r, a_, b_, dg) ==
    query_node(getLeafNode(b_.members.tree, cur_leaf_b), -r, b_, a_, dg)

\* lines 313, 321 stepping one leaf too far
NextLeaf_Skip(cur, strd) == cur + strd + 1

\* lines 313, 321 stepping by one whatever the stride
NextLeaf_IgnoreStride(cur, strd) == cur + 1

\* lines 313, 321: cur_leaf += stride
NextLeaf(cur, strd) == cur + strd

\* the driving hierarchy's leaf count
DrivingLeaves(a_, b_) ==
    IF ADrives(a_, b_) THEN getNumLeaves(a_.members.tree) ELSE getNumLeaves(b_.members.tree)

RECURSIVE LeafLoop(_, _, _, _, _, _, _, _)
\* lines 311-328 from leaf cur on: the boolean returned and the query_node
\* calls made, in order
LeafLoop(cur, r, a_, b_, strd, err_, log, dg) ==
    IF cur >= DrivingLeaves(a_, b_)
    THEN [result |-> FALSE, err |-> err_, calls |-> log]
    ELSE LET q == IF ADrives(a_, b_) THEN QueryFromA(cur, r, a_, b_, dg)
                  ELSE QueryFromB(cur, r, a_, b_, dg)
         IN IF q.result
            THEN [result |-> TRUE, err |-> err_, calls |-> Append(log, q)]
            ELSE LeafLoop(NextLeaf(cur, strd), r, a_, b_, strd, err_, Append(log, q), dg)

\* test_overlap(r_ab, a, b, err) as run by the worker with threadIdx.x =
\* offset of blockDim.x = strd workers (0 and 1 in the host build)
test_overlap(r, a_, b_, err_, offset, strd, dg) ==
    LeafLoop(offset, r, a_, b_, strd, err_, <<>>, dg)

(***************************************************************************)
(* The call test_overlap(r_ab, a, b, err) as a state machine: each worker  *)
(* w of the stride workers runs the leaf loop of lines 311-328 from offset *)
(* w, one query_node call per step.  err[w] is the counter the caller      *)
(* passed by reference, errIn its value on entry, calls[w] the log of the  *)
(* query_node calls of worker w.                                           *)
(***************************************************************************)
Workers == 0..(stride - 1)

Instances(ga, gb, mm, pad, qa, qb) ==
    /\ a = ShapeUnion(qa, union_params(ga[1], ga[2], CHOOSE x \in Radii : TRUE, "a", mm, pad), "a")
    /\ b = ShapeUnion(qb, union_params(gb[1], gb[2], CHOOSE x \in Radii : TRUE, "b", mm, pad), "b")

Entry(e, strd) ==
    /\ stride = strd
    /\ pc = [w \in 0..(strd - 1) |-> "loop"]
    /\ cur_leaf = [w \in 0..(strd - 1) |-> w]
    /\ ret = [w \in 0..(strd - 1) |-> FALSE]
    /\ err = [w \in 0..(strd - 1) |-> e]
    /\ errIn = e
    /\ calls = [w \in 0..(strd - 1) |-> <<>>]
    /\ circ = <<>>
    /\ Idle

\* the host build: offset = 0, stride = 1 (lines 307-308); the caller's counter
\* is 0 on entry and the primitive test signals a degeneracy at exact contact
Init ==
    \E ga \in Geometries, gb \in Geometries, mm \in MaskModes, pad \in 0..MaxPad,
       qa \in Quats, qb \in Quats :
        /\ Instances(ga, gb, mm, pad, qa, qb)
        /\ \E r \in (-MaxR)..MaxR :
              /\ r_ab = r
              /\ degen = "tangent"
              /\ Entry(0, 1)

\* the outcome of one query_node call of worker w
AfterQuery(w, q) ==
    /\ calls' = [calls EXCEPT ![w] = Append(@, q)]
    /\ IF q.result
       THEN /\ ret' = [ret EXCEPT ![w] = TRUE]
            /\ pc' = [pc EXCEPT ![w] = "done"]
            /\ UNCHANGED cur_leaf
       ELSE /\ cur_leaf' = [cur_leaf EXCEPT ![w] = NextLeaf(@, stride)]
            /\ UNCHANGED <<ret, pc>>
    /\ a' = AfterCall(a)
    /\ b' = AfterCall(b)
    /\ UNCHANGED <<r_ab, degen, stride, err, errIn, circ>>
    /\ UNCHANGED otherVars

\* lines 311-318: one pass of the loop over a's leaves
DriveA(w) ==
    /\ pc[w] = "loop"
    /\ ADrives(a, b)
    /\ cur_leaf[w] < getNumLeaves(a.members.tree)
    /\ AfterQuery(w, QueryFromA(cur_leaf[w], r_ab, a, b, degen))

\* lines 319-326: one pass of the loop over b's leaves
DriveB(w) ==
    /\ pc[w] = "loop"
    /\ ~ADrives(a, b)
    /\ cur_leaf[w] < getNumLeaves(b.members.tree)
    /\ AfterQuery(w, QueryFromB(cur_leaf[w], r_ab, a, b, degen))

\* line 328 returning true
ReturnFalse_True(w) ==
    /\ pc[w] = "loop"
    /\ cur_leaf[w] >= DrivingLeaves(a, b)
    /\ ret' = [ret EXCEPT ![w] = TRUE]
    /\ pc' = [pc EXCEPT ![w] = "done"]
    /\ a' = AfterCall(a)
    /\ b' = AfterCall(b)
    /\ UNCHANGED <<r_ab, degen, stride, cur_leaf, err, errIn, calls, circ>>
    /\ UNCHANGED otherVars

\* line 328: the loop ran out of leaves
ReturnFalse(w) ==
    /\ pc[w] = "loop"
    /\ cur_leaf[w] >= DrivingLeaves(a, b)
    /\ ret' = [ret EXCEPT ![w] = FALSE]
    /\ pc' = [pc EXCEPT ![w] = "done"]
    /\ a' = AfterCall(a)
    /\ b' = AfterCall(b)
    /\ UNCHANGED <<r_ab, degen, stride, cur_leaf, err, errIn, calls, circ>>
    /\ UNCHANGED otherVars

Next ==
    \/ \E w \in Workers : DriveA(w)
    \/ \E w \in Workers : DriveB(w)
    \/ \E w \in Workers : ReturnFalse(w)

Spec == Init /\ [][Next]_vars

\* the NVCC build: offset = threadIdx.x, stride = blockDim.x (lines 304-305);
\* every worker of the block runs the call on the same arguments, with tight
\* boxes and a primitive test that never signals
InitPar ==
    \E ga \in Geometries, gb \in Geometries, mm \in MaskModes,
       qa \in Quats, qb \in Quats :
        /\ Instances(ga, gb, mm, 0, qa, qb)
        /\ \E r \in (-MaxR)..MaxR, strd \in 1..MaxStride :
              /\ r_ab = r
              /\ degen = "none"
              /\ Entry(0, strd)

SpecPar == InitPar /\ [][Next]_vars

AllDone == \A w \in Workers : pc[w] = "done"

(***************************************************************************)
(* One call query_node(cur_node_a, a, b, r_ab) run step by step: qn.pc is  *)
(* the position in the function, qn.cur_node_a the leaf of a, qn.st the    *)
(* locals cur_node_b (cur) and stack with the record of the traversal so   *)
(* far.                                                                    *)
(***************************************************************************)
NonEmptyGeometries == {g \in Geometries : MemberCount(Topologies[g[1]]) >= 1}

\* the composites the leaf of a is taken from: one or two members, one or two
\* leaves
LeafGeometries == {g \in NonEmptyGeometries : g[1] \in {"S1", "S2", "T2"}}

InitQuery ==
    \E ga \in LeafGeometries, gb \in NonEmptyGeometries, mm \in MaskModes,
       qa \in Quats, qb \in Quats :
        /\ Instances(ga, gb, mm, 0, qa, qb)
        /\ \E r \in (-MaxR)..MaxR, cur_leaf_a \in 0..(MemberCount(Topologies[ga[1]]) - 1) :
              /\ cur_leaf_a < getNumLeaves(a.members.tree)
              /\ r_ab = r
              /\ degen = "none"
              /\ stride = 1
              /\ pc = [w \in {0} |-> "query"]
              /\ cur_leaf = [w \in {0} |-> cur_leaf_a]
              /\ ret = [w \in {0} |-> FALSE]
              /\ err = [w \in {0} |-> 0]
              /\ errIn = 0
              /\ calls = [w \in {0} |-> <<>>]
              /\ circ = <<>>
              /\ qn = [pc |-> "entry",
                       cur_node_a |-> getLeafNode(a.members.tree, cur_leaf_a),
                       st |-> [cur |-> 0, stack |-> <<>>,
                               acc |-> EmptyQuery(getLeafNode(a.members.tree, cur_leaf_a),
                                                  r, a, b),
                               returned |-> FALSE]]
              /\ nl = NoCall /\ pdata = NoCall /\ op = NoCall

QueryFrame ==
    /\ a' = AfterCall(a)
    /\ b' = AfterCall(b)
    /\ UNCHANGED <<r_ab, degen, stride, pc, cur_leaf, ret, err, errIn, calls, circ>>
    /\ UNCHANGED <<nl, pdata, op>>

\* lines 258-260: b's hierarchy is one node
QueryTrivial ==
    /\ qn.pc = "entry"
    /\ getNumNodes(b.members.tree) = 1
    /\ LET acc == TrivialQuery(TransformedOBB(qn.cur_node_a, r_ab, a, b), r_ab, a, b,
                               qn.cur_node_a, qn.st.acc, degen)
       IN qn' = [qn EXCEPT !.pc = "done", !.st.acc = acc, !.st.returned = acc.result]
    /\ QueryFrame

\* lines 245-249: cur_node_b = 0 and the sentinel pushed
QueryEnter ==
    /\ qn.pc = "entry"
    /\ getNumNodes(b.members.tree) # 1
    /\ qn' = [qn EXCEPT !.pc = "loop", !.st.cur = 0,
                        !.st.stack = <<getNumNodes(b.members.tree)>>]
    /\ QueryFrame

\* lines 262-293: one pass of the loop body, then the loop test or the return
QueryIterate ==
    /\ qn.pc = "loop"
    /\ LET st2 == QueryStep(TransformedOBB(qn.cur_node_a, r_ab, a, b), r_ab, a, b,
                            qn.cur_node_a, qn.st, degen)
       IN qn' = [qn EXCEPT !.st = st2,
                           !.pc = IF st2.returned \/ st2.cur = getNumNodes(b.members.tree)
                                  THEN "done" ELSE "loop"]
    /\ QueryFrame

NextQuery ==
    \/ QueryTrivial
    \/ QueryEnter
    \/ QueryIterate

\* the function runs on: a pass of the loop that can be made is made
SpecQuery == InitQuery /\ [][NextQuery]_vars /\ WF_vars(NextQuery)

(***************************************************************************)
(* The dumbbell scenario: a and b are two spheres each, at local x = 0 and *)
(* x = d, grouped in one leaf (S2) or in two leaves (T2), all masks        *)
(* sharing a bit, both instances with the same orientation; the centers    *)
(* of the two dumbbells are then |r_ab| apart.                             *)
(***************************************************************************)
DumbbellTopos == {"S2", "T2"}

InitDumbbell ==
    \E ta \in DumbbellTopos, tb \in DumbbellTopos, d \in 1..MaxOffset,
       q \in Quats, pad \in 0..MaxPad :
        /\ Instances(<<ta, d>>, <<tb, d>>, "shared", pad, q, q)
        /\ \E r \in (-MaxSeparation)..MaxSeparation :
              /\ r_ab = r
              /\ degen = "none"
              /\ Entry(0, 1)

SpecDumbbell == InitDumbbell /\ [][Next]_vars

(***************************************************************************)
(* The broad phase next to the exact test: check_circumsphere_overlap on   *)
(* the arguments of the call, at any moment of it; circ holds the value it *)
(* returned, once it has.                                                  *)
(***************************************************************************)
InitCirc ==
    \E ga \in Geometries, gb \in Geometries, qa \in Quats, qb \in Quats :
        /\ Instances(ga, gb, "shared", 0, qa, qb)
        /\ \E r \in (-MaxR)..MaxR :
              /\ r_ab = r
              /\ degen = "none"
              /\ Entry(0, 1)

Circumsphere ==
    /\ circ = <<>>
    /\ circ' = <<check_circumsphere_overlap(r_ab, a, b)>>
    /\ a' = AfterCall(a)
    /\ b' = AfterCall(b)
    /\ UNCHANGED <<r_ab, degen, stride, pc, cur_leaf, ret, err, errIn, calls>>
    /\ UNCHANGED otherVars

NextCirc ==
    \/ Circumsphere
    \/ \E w \in Workers : DriveA(w)
    \/ \E w \in Workers : DriveB(w)
    \/ \E w \in Workers : ReturnFalse(w)

SpecCirc == InitCirc /\ [][NextCirc]_vars

(***************************************************************************)
(* One call test_narrow_phase_overlap(dr, a, b, cur_node_a, cur_node_b) on *)
(* a leaf of each hierarchy; qn holds the arguments and, once the call has *)
(* returned, the record of the scan.                                       *)
(***************************************************************************)
InitNarrow ==
    \E ga \in NonEmptyGeometries, gb \in NonEmptyGeometries, mm \in MaskModes,
       qa \in Quats, qb \in Quats :
        /\ Instances(ga, gb, mm, 0, qa, qb)
        /\ \E r \in (-MaxR)..MaxR,
              leaf_a \in 0..(MemberCount(Topologies[ga[1]]) - 1),
              leaf_b \in 0..(MemberCount(Topologies[gb[1]]) - 1) :
              /\ leaf_a < getNumLeaves(a.members.tree)
              /\ leaf_b < getNumLeaves(b.members.tree)
              /\ r_ab = r
              /\ degen = "none"
              /\ stride = 1
              /\ pc = [w \in {0} |-> "narrow"]
              /\ cur_leaf = [w \in {0} |-> leaf_a]
              /\ ret = [w \in {0} |-> FALSE]
              /\ err = [w \in {0} |-> 0]
              /\ errIn = 0
              /\ calls = [w \in {0} |-> <<>>]
              /\ circ = <<>>
              /\ qn = [pc |-> "narrow",
                       cur_node_a |-> getLeafNode(a.members.tree, leaf_a),
                       cur_node_b |-> getLeafNode(b.members.tree, leaf_b),
                       scan |-> EmptyScan]
              /\ nl = NoCall /\ pdata = NoCall /\ op = NoCall

NarrowPhase ==
    /\ qn.pc = "narrow"
    /\ qn' = [qn EXCEPT !.pc = "returned",
                        !.scan = test_narrow_phase_overlap(r_ab, a, b, qn.cur_node_a,
                                                           qn.cur_node_b, degen)]
    /\ QueryFrame

NextNarrow == NarrowPhase

SpecNarrow == InitNarrow /\ [][NextNarrow]_vars

(***************************************************************************)
(* NeighborList (src/computes/NeighborList.cc) and BinnedNeighborList      *)
(* (src/computes/BinnedNeighborList.cc).                                   *)
(* Coordinates are integers of the x axis; the box is [-H, H), periodic.   *)
(* pdata is the ParticleData the list was built for: x[i] and tag[i] by    *)
(* particle index, the box, and the step of its last sort.  nl is the      *)
(* NeighborList object with the members of the class; m_gpu_nlist holds    *)
(* the host mirror h_array and the device memory d_array of the CUDA       *)
(* build.  The statistics counters m_updates and m_forced_updates and the  *)
(* profiler are left out.                                                  *)
(***************************************************************************)
\* EXCLUDE_EMPTY, 0xffffffff, written as the signed value of that bit pattern
EXCLUDE_EMPTY == -1

\* ExcludeList(): the four slots empty
ExcludeList == [e1 |-> EXCLUDE_EMPTY, e2 |-> EXCLUDE_EMPTY,
                e3 |-> EXCLUDE_EMPTY, e4 |-> EXCLUDE_EMPTY]

\* the particle data: positions and tags by index, the box [-H, H)
ParticleData(xs, tags, H) ==
    [N |-> Len(xs),
     x |-> ZeroBased(xs),
     tag |-> ZeroBased(tags),
     box |-> [xlo |-> -H, xhi |-> H],
     lastSortedTstep |-> 0]

getN(pd) == pd.N

getBox(pd) == pd.box

getLastSortedTstep(pd) == pd.lastSortedTstep

\* the largest list length (lines 303-308)
MaxHeight(list, N) ==
    IF N = 0 THEN 0 ELSE SetMax({Len(list[i]) : i \in 0..(N - 1)})

\* lines 323-335: the host mirror filled from m_list, row 0 the lengths, row
\* j + 1 the j-th neighbors, pitch N; the rows past the longest list are zero
\* and are not represented
HostArrayOf(list, N) ==
    LET max_h == MaxHeight(list, N)
    IN [pitch |-> N,
        list |-> [k \in 0..((max_h + 1) * N - 1) |->
                    LET i == k % N
                        row == k \div N
                    IN IF row = 0 THEN Len(list[i])
                       ELSE IF row - 1 < Len(list[i]) THEN list[i][row]
                       ELSE 0]]

\* hostToDeviceCopy (lines 296-340): the mirror is filled and copied to the
\* device; the array is 256 rows high from construction and grown when a list
\* is longer, so every entry has its row
hostToDeviceCopy(l, pd) ==
    LET h == HostArrayOf(l.m_list, getN(pd))
    IN [l EXCEPT !.m_gpu_nlist = [h_array |-> h, d_array |-> h]]

\* lines 352-361: m_list read back from the mirror
ListOf(h_array, N) ==
    [i \in 0..(N - 1) |->
        LET size == h_array.list[i]
        IN [j \in 1..size |-> h_array.list[j * h_array.pitch + i]]]

\* deviceToHostCopy (lines 343-364)
deviceToHostCopy(l, pd) ==
    LET h == l.m_gpu_nlist.d_array
    IN [l EXCEPT !.m_gpu_nlist.h_array = h,
                 !.m_list = ListOf(h, getN(pd))]

\* NeighborList::NeighborList (lines 82-122), for 0 <= r_cut and 0 <= r_buff;
\* binned tells the class of the object, BinnedNeighborList or NeighborList
NeighborList(pd, r_cut, r_buff, binned) ==
    LET l == [binned |-> binned,
              m_r_cut |-> r_cut,
              m_r_buff |-> r_buff,
              m_storage_mode |-> "half",
              m_force_update |-> TRUE,
              m_list |-> [i \in 0..(getN(pd) - 1) |-> <<>>],
              m_exclusions |-> [t \in 0..(getN(pd) - 1) |-> ExcludeList],
              m_last_x |-> [i \in 0..(getN(pd) - 1) |-> 0],
              m_last_updated_tstep |-> 0,
              m_every |-> 0,
              m_data_location |-> "cpugpu",
              m_gpu_nlist |-> <<>>]
    IN hostToDeviceCopy(l, pd)

\* NeighborList::forceUpdate
forceUpdate(l) == [l EXCEPT !.m_force_update = TRUE]

\* NeighborList::setEvery (lines 138-141)
setEvery(l, every) == [l EXCEPT !.m_every = every]

\* NeighborList::setRCut (lines 175-188): the members are assigned before the
\* check; thrown tells whether the call ended by the exception
setRCut(l, r_cut, r_buff) ==
    LET l1 == [l EXCEPT !.m_r_cut = r_cut, !.m_r_buff = r_buff]
    IN IF r_cut < 0 \/ r_buff < 0
       THEN [nl |-> l1, thrown |-> TRUE]
       ELSE [nl |-> forceUpdate(l1), thrown |-> FALSE]

\* NeighborList::setStorageMode (lines 411-415)
setStorageMode(l, mode) == forceUpdate([l EXCEPT !.m_storage_mode = mode])

\* the first empty slot of an exclusion list, "full" when there is none
FreeSlot(ex) ==
    IF ex.e1 = EXCLUDE_EMPTY THEN "e1"
    ELSE IF ex.e2 = EXCLUDE_EMPTY THEN "e2"
    ELSE IF ex.e3 = EXCLUDE_EMPTY THEN "e3"
    ELSE IF ex.e4 = EXCLUDE_EMPTY THEN "e4"
    ELSE "full"

\* tag t2 is in a slot of tag t1
InSlots(l, t1, t2) ==
    \E f \in {"e1", "e2", "e3", "e4"} : l.m_exclusions[t1][f] = t2

\* lines 433-440, 449-456: the tag stored in the first empty slot
FillSlot(ex, t) == [ex EXCEPT ![FreeSlot(ex)] = t]

\* NeighborList::addExclusion (lines 424-464)
addExclusion(l, pd, tag1, tag2) ==
    IF tag1 >= getN(pd) \/ tag2 >= getN(pd)
    THEN [nl |-> l, thrown |-> TRUE]
    ELSE IF FreeSlot(l.m_exclusions[tag1]) = "full"
    THEN [nl |-> l, thrown |-> TRUE]
    ELSE LET l1 == [l EXCEPT !.m_exclusions[tag1] = FillSlot(@, tag2)]
         IN IF FreeSlot(l1.m_exclusions[tag2]) = "full"
            THEN [nl |-> l1, thrown |-> TRUE]
            ELSE [nl |-> forceUpdate([l1 EXCEPT !.m_exclusions[tag2] = FillSlot(@, tag1)]),
                  thrown |-> FALSE]

\* NeighborList::checkForceUpdate (lines 610-614)
checkForceUpdate(l, pd) ==
    IF l.m_last_updated_tstep <= getLastSortedTstep(pd) THEN forceUpdate(l) ELSE l

\* lines 520-538: a displacement pulled back across the box
WrapBox(dx, box) ==
    LET Lx == box.xhi - box.xlo
    IN IF dx >= box.xhi THEN dx - Lx
       ELSE IF dx < box.xlo THEN dx + Lx
       ELSE dx

\* line 540 with > for >=
MovedFar_Strict(l, pd, i) ==
    LET dx == WrapBox(pd.x[i] - l.m_last_x[i], getBox(pd))
    IN 4 * dx * dx > l.m_r_buff * l.m_r_buff

\* lines 514-540: particle i is at least half the buffer from its saved
\* position, dx * dx >= (m_r_buff / 2)^2
MovedFar(l, pd, i) ==
    LET dx == WrapBox(pd.x[i] - l.m_last_x[i], getBox(pd))
    IN 4 * dx * dx >= l.m_r_buff * l.m_r_buff

\* lines 550-555: the positions saved
SaveLast(l, pd, timestep) ==
    [l EXCEPT !.m_last_x = pd.x, !.m_last_updated_tstep = timestep]

\* NeighborList::needsUpdating (lines 474-566): the value returned, the object
\* after the call and the path taken; m_r_buff < 1e-6 is m_r_buff < 1 on
\* integers
needsUpdating(l, pd, timestep) ==
    IF l.m_r_buff < 1
    THEN [result |-> TRUE, nl |-> l, path |-> "nobuff"]
    ELSE IF timestep < l.m_last_updated_tstep + l.m_every /\ ~l.m_force_update
    THEN [result |-> FALSE, nl |-> l, path |-> "early"]
    ELSE IF l.m_force_update
    THEN [result |-> TRUE,
          nl |-> SaveLast([l EXCEPT !.m_force_update = FALSE], pd, timestep),
          path |-> "forced"]
    ELSE IF \E i \in 0..(getN(pd) - 1) : MovedFar(l, pd, i)
    THEN [result |-> TRUE, nl |-> SaveLast(l, pd, timestep), path |-> "moved"]
    ELSE [result |-> FALSE, nl |-> l, path |-> "still"]

\* lines 664-672, BinnedNeighborList.cc:358-359: t is in one of the four slots
Excluded(excludes, t) ==
    excludes.e1 = t \/ excludes.e2 = t \/ excludes.e3 = t \/ excludes.e4 = t

\* lines 680-685: the minimum image by the half box length
WrapHalf(dx, box) ==
    LET Lx == box.xhi - box.xlo
    IN IF 2 * dx >= Lx THEN dx - Lx
       ELSE IF 2 * dx < -Lx THEN dx + Lx
       ELSE dx

\* lines 705-718: the pair stored
StorePair(list, mode, i, j) ==
    IF mode = "full"
    THEN [list EXCEPT ![i] = Append(@, j), ![j] = Append(@, i)]
    ELSE [list EXCEPT ![i] = Append(@, j)]

\* lines 664-672 without the test
SkipPair_Never(l, pd, i, j) == FALSE

\* lines 664-672: the pair is skipped when j's tag is excluded by i's tag
SkipPair(l, pd, i, j) == Excluded(l.m_exclusions[pd.tag[i]], pd.tag[j])

RECURSIVE SimplePairs(_, _, _, _, _)
\* lines 656-721: the loops over i and j > i, from the pair (i, j) on
SimplePairs(l, pd, i, j, list) ==
    IF i >= getN(pd) THEN list
    ELSE IF j >= getN(pd) THEN SimplePairs(l, pd, i + 1, i + 2, list)
    ELSE IF SkipPair(l, pd, i, j) THEN SimplePairs(l, pd, i, j + 1, list)
    ELSE LET dx == WrapHalf(pd.x[j] - pd.x[i], getBox(pd))
             rsq == dx * dx
             rmaxsq == (l.m_r_cut + l.m_r_buff) * (l.m_r_cut + l.m_r_buff)
         IN IF rsq < rmaxsq
            THEN SimplePairs(l, pd, i, j + 1, StorePair(list, l.m_storage_mode, i, j))
            ELSE SimplePairs(l, pd, i, j + 1, list)

\* NeighborList::computeSimple (lines 620-730): the list after the call
computeSimple(l, pd) ==
    SimplePairs(l, pd, 0, 1, [i \in 0..(getN(pd) - 1) |-> <<>>])

\* BinnedNeighborList.cc:128-132: the number of bins along x
NumBins(l, pd) ==
    LET box == getBox(pd)
        M == (box.xhi - box.xlo) \div (l.m_r_cut + l.m_r_buff)
    IN IF M = 0 THEN 1 ELSE M

\* BinnedNeighborList.cc:169, 271: (x - box.xlo) * scalex cut to an integer,
\* scalex = m_Mx / (box.xhi - box.xlo)
BinCoord(x, pd, Mx) ==
    LET box == getBox(pd)
    IN ((x - box.xlo) * Mx) \div (box.xhi - box.xlo)

\* BinnedNeighborList::updateBins (BinnedNeighborList.cc:114-193): m_Mx and,
\* by bin, the entries of m_bins, m_binned_x and m_binned_tag in the order
\* the particles were put, each entry the index m, the position x and the tag
updateBins(l, pd) ==
    LET Mx == NumBins(l, pd)
        all == [k \in 1..getN(pd) |-> k - 1]
        ib(n) == IF BinCoord(pd.x[n], pd, Mx) = Mx THEN 0 ELSE BinCoord(pd.x[n], pd, Mx)
    IN [m_Mx |-> Mx,
        m_bins |-> [bin \in 0..(Mx - 1) |->
                      LET InBin(n) == ib(n) = bin
                          ns == SelectSeq(all, InBin)
                      IN [k \in 1..Len(ns) |->
                             [m |-> ns[k], x |-> pd.x[ns[k]], tag |-> pd.tag[ns[k]]]]]]

\* BinnedNeighborList.cc:279-286: the periodic image of a bin coordinate
BinWrap(i, Mx) ==
    IF i < 0 THEN i + Mx
    ELSE IF i >= Mx THEN i - Mx
    ELSE i

\* BinnedNeighborList.cc:300-367: the entries of one bin that are added to the
\* list of particle n
FromBin(l, pd, bins, n, bin) ==
    LET xn == pd.x[n]
        excludes == l.m_exclusions[pd.tag[n]]
        rmaxsq == (l.m_r_cut + l.m_r_buff) * (l.m_r_cut + l.m_r_buff)
        Added(e) ==
            /\ n # e.m
            /\ LET dx == WrapBox(e.x - xn, getBox(pd))
               IN dx * dx < rmaxsq
            /\ ~Excluded(excludes, e.tag)
            /\ (l.m_storage_mode = "full" \/ n < e.m)
        es == SelectSeq(bins.m_bins[bin], Added)
    IN [k \in 1..Len(es) |-> es[k].m]

\* BinnedNeighborList::updateListFromBins (BinnedNeighborList.cc:215-375): the
\* list after the call; particle n looks into the bins ib - 1, ib, ib + 1
updateListFromBins(l, pd, bins) ==
    [n \in 0..(getN(pd) - 1) |->
        LET ib == BinCoord(pd.x[n], pd, bins.m_Mx)
        IN FromBin(l, pd, bins, n, BinWrap(ib - 1, bins.m_Mx))
           \o FromBin(l, pd, bins, n, BinWrap(ib, bins.m_Mx))
           \o FromBin(l, pd, bins, n, BinWrap(ib + 1, bins.m_Mx))]

\* line 158, BinnedNeighborList.cc:88-89: the list built by the class of
\* the object
BuildList(l, pd) ==
    IF l.binned THEN updateListFromBins(l, pd, updateBins(l, pd))
    ELSE computeSimple(l, pd)

\* lines 157-164, BinnedNeighborList.cc:86-94: the list rebuilt, the data now
\* on the host
Rebuilt(l, pd) ==
    [l EXCEPT !.m_list = BuildList(l, pd), !.m_data_location = "cpu"]

\* line 150 without the force flag
SkipCompute_NoForce(l, should) == ~should

\* line 150: nothing to do this step
SkipCompute(l, should) == ~should /\ ~l.m_force_update

\* NeighborList::compute (lines 146-168), BinnedNeighborList::compute
\* (BinnedNeighborList.cc:75-99); should is the value of shouldCompute(timestep).
\* needs holds the outcome of needsUpdating when it was called
compute(l, pd, timestep, should) ==
    LET l1 == checkForceUpdate(l, pd)
    IN IF SkipCompute(l1, should)
       THEN [nl |-> l1, needs |-> <<>>]
       ELSE LET u == needsUpdating(l1, pd, timestep)
            IN [nl |-> IF u.result THEN Rebuilt(u.nl, pd) ELSE u.nl,
                needs |-> <<[result |-> u.result, path |-> u.path]>>]

\* NeighborList::getList (lines 195-235): the object after the call and the
\* list returned
getList(l, pd) ==
    IF l.m_data_location = "gpu"
    THEN LET l1 == [deviceToHostCopy(l, pd) EXCEPT !.m_data_location = "cpugpu"]
         IN [nl |-> l1, list |-> l1.m_list]
    ELSE [nl |-> l, list |-> l.m_list]

\* line 270 without the copy
getListGPU_NoCopy(l, pd) ==
    IF l.m_data_location = "cpu"
    THEN LET l1 == [l EXCEPT !.m_data_location = "cpugpu"]
         IN [nl |-> l1, gpu |-> l1.m_gpu_nlist]
    ELSE [nl |-> l, gpu |-> l.m_gpu_nlist]

\* NeighborList::getListGPU (lines 262-291): the object after the call and the
\* structure returned
getListGPU(l, pd) ==
    IF l.m_data_location = "cpu"
    THEN LET l1 == [hostToDeviceCopy(l, pd) EXCEPT !.m_data_location = "cpugpu"]
         IN [nl |-> l1, gpu |-> l1.m_gpu_nlist]
    ELSE [nl |-> l, gpu |-> l.m_gpu_nlist]

(***************************************************************************)
(* The neighbor list as a state machine: the calls of its public methods   *)
(* and the moves of the particles between them.  op is the record of the   *)
(* calls: name, the last call ("new" after construction); thrown, whether  *)
(* it ended by an exception; needs, the                                    *)
(* outcome of needsUpdating in the last compute that called it, with what  *)
(* held before the call (gated: timestep < m_last_updated_tstep + m_every, *)
(* still: every particle at its saved position); returned, the value the   *)
(* last getList or getListGPU returned; ref, the positions at the last     *)
(* needsUpdating that returned true; latest, the list built last.          *)
(***************************************************************************)
BoxHalves == 2..MaxHalf

Timesteps == 0..MaxTimestep

\* the values given to setEvery
Everys == {0, 1}

\* the cutoff and buffer radii given to the constructor and to setRCut
CutoffRadii == {1, 2}

BufferRadii == {0, 1, 2}

StorageModes == {"half", "full"}

\* the positions of a box
Positions(H) == (-H)..(H - 1)

\* the variables of the overlap engine while the neighbor list runs
ShapesIdle ==
    /\ a = NoCall /\ b = NoCall /\ r_ab = 0 /\ degen = NoCall
    /\ stride = 1
    /\ pc = [w \in {0} |-> "list"]
    /\ cur_leaf = [w \in {0} |-> 0]
    /\ ret = [w \in {0} |-> FALSE]
    /\ err = [w \in {0} |-> 0]
    /\ errIn = 0
    /\ calls = [w \in {0} |-> <<>>]
    /\ circ = <<>>
    /\ qn = NoCall

ShapesUnchanged ==
    UNCHANGED <<a, b, r_ab, degen, stride, pc, cur_leaf, ret, err, errIn, calls, circ, qn>>

\* the object constructed on the particle data pd, setEvery(every) called
Constructed(pd, r_cut, r_buff, binned, every) ==
    /\ pdata = pd
    /\ nl = setEvery(NeighborList(pd, r_cut, r_buff, binned), every)
    /\ op = [name |-> "new", thrown |-> FALSE, needs |-> <<>>, returned |-> <<>>, ref |-> <<>>,
             latest |-> [i \in 0..(getN(pd) - 1) |-> <<>>]]
    /\ ShapesIdle

\* the record of a call that is not compute, getList or getListGPU
Called(name, thrown) ==
    [op EXCEPT !.name = name, !.thrown = thrown, !.needs = <<>>, !.returned = <<>>]

\* the integrator moves particle i to x
MoveParticle(i, x) ==
    /\ pdata.x[i] # x
    /\ pdata' = [pdata EXCEPT !.x[i] = x]
    /\ op' = Called("move", FALSE)
    /\ UNCHANGED nl
    /\ ShapesUnchanged

SetEvery(every) ==
    /\ nl' = setEvery(nl, every)
    /\ op' = Called("setEvery", FALSE)
    /\ UNCHANGED pdata
    /\ ShapesUnchanged

SetRCut(r_cut, r_buff) ==
    LET c == setRCut(nl, r_cut, r_buff)
    IN /\ nl' = c.nl
       /\ op' = Called("setRCut", c.thrown)
       /\ UNCHANGED pdata
       /\ ShapesUnchanged

SetStorageMode(mode) ==
    /\ nl' = setStorageMode(nl, mode)
    /\ op' = Called("setStorageMode", FALSE)
    /\ UNCHANGED pdata
    /\ ShapesUnchanged

AddExclusion(tag1, tag2) ==
    LET c == addExclusion(nl, pdata, tag1, tag2)
    IN /\ nl' = c.nl
       /\ op' = Called("addExclusion", c.thrown)
       /\ UNCHANGED pdata
       /\ ShapesUnchanged

\* every particle is at its saved position
Still(l, pd) == \A i \in 0..(getN(pd) - 1) : pd.x[i] = l.m_last_x[i]

Compute(timestep, should) ==
    LET c == compute(nl, pdata, timestep, should)
        rebuilt == c.needs # <<>> /\ c.needs[1].result
    IN /\ nl' = c.nl
       /\ op' = [op EXCEPT
                   !.name = "compute",
                   !.thrown = FALSE,
                   !.needs = IF c.needs = <<>> THEN <<>>
                             ELSE <<[result |-> c.needs[1].result,
                                     path |-> c.needs[1].path,
                                     gated |-> timestep < nl.m_last_updated_tstep + nl.m_every,
                                     still |-> Still(nl, pdata)]>>,
                   !.returned = <<>>,
                   !.ref = IF rebuilt THEN <<pdata.x>> ELSE @,
                   !.latest = IF rebuilt THEN c.nl.m_list ELSE @]
       /\ UNCHANGED pdata
       /\ ShapesUnchanged

GetList ==
    LET c == getList(nl, pdata)
    IN /\ nl' = c.nl
       /\ op' = [op EXCEPT !.name = "getList", !.thrown = FALSE, !.needs = <<>>,
                           !.returned = <<c.list>>]
       /\ UNCHANGED pdata
       /\ ShapesUnchanged

GetListGPU ==
    LET c == getListGPU(nl, pdata)
    IN /\ nl' = c.nl
       /\ op' = [op EXCEPT !.name = "getListGPU", !.thrown = FALSE, !.needs = <<>>,
                           !.returned = <<ListOf(c.gpu.d_array, getN(pdata))>>]
       /\ UNCHANGED pdata
       /\ ShapesUnchanged

\* the number of exclusion slots in use
SlotsUsed(l, pd) ==
    Cardinality({<<t, f>> \in (0..(getN(pd) - 1)) \X {"e1", "e2", "e3", "e4"} :
                    l.m_exclusions[t][f] # EXCLUDE_EMPTY})

\* addExclusion on any two tags, one past the last included, while fewer
\* than MaxExclusions pairs are stored
AddAnyExclusion ==
    /\ SlotsUsed(nl, pdata) < 2 * MaxExclusions
    /\ \E tag1 \in 0..getN(pdata), tag2 \in 0..getN(pdata) : AddExclusion(tag1, tag2)

(***************************************************************************)
(* The settings of a NeighborList of two particles that do not move:       *)
(* setRCut, setStorageMode and addExclusion between the computes.          *)
(***************************************************************************)
\* the buffer radii given to setRCut
SettingBuffers == {0, 1}

InitSettings ==
    \E H \in BoxHalves, every \in Everys :
        \E x1 \in Positions(H), r_cut \in CutoffRadii, r_buff \in SettingBuffers :
            Constructed(ParticleData(<<0, x1>>, <<0, 1>>, H), r_cut, r_buff, FALSE, every)

NextSettings ==
    \/ \E r_cut \in CutoffRadii, r_buff \in SettingBuffers : SetRCut(r_cut, r_buff)
    \/ \E mode \in StorageModes : SetStorageMode(mode)
    \/ AddAnyExclusion
    \/ \E timestep \in Timesteps, should \in BOOLEAN : Compute(timestep, should)

SpecSettings == InitSettings /\ [][NextSettings]_vars

(***************************************************************************)
(* The update test of a NeighborList of two particles: the particles move  *)
(* between the computes and setEvery changes the period.                   *)
(***************************************************************************)
InitUpdate ==
    \E H \in BoxHalves, r_buff \in BufferRadii :
        \E x1 \in Positions(H) :
            Constructed(ParticleData(<<0, x1>>, <<0, 1>>, H), 1, r_buff, FALSE, 0)

NextUpdate ==
    \/ \E i \in 0..(getN(pdata) - 1), x \in Positions(pdata.box.xhi) : MoveParticle(i, x)
    \/ \E every \in Everys : SetEvery(every)
    \/ \E timestep \in Timesteps, should \in BOOLEAN : Compute(timestep, should)

SpecUpdate == InitUpdate /\ [][NextUpdate]_vars

(***************************************************************************)
(* The lists of three particles that do not move, built by either class,   *)
(* with no buffer (every compute that is not skipped rebuilds).  Particle  *)
(* 0 sits on the lower edge of the box; the tags are a rotation of the      *)
(* indices, as after a sort of the particle data.                          *)
(***************************************************************************)
TagOrders == {<<2, 0, 1>>}

InitList ==
    \E H \in BoxHalves, tags \in TagOrders, binned \in BOOLEAN, r_cut \in CutoffRadii :
        \E x1 \in Positions(H), x2 \in Positions(H) :
            Constructed(ParticleData(<<-H, x1, x2>>, tags, H), r_cut, 0, binned, 0)

NextList ==
    \/ \E mode \in StorageModes : SetStorageMode(mode)
    \/ AddAnyExclusion
    \/ \E should \in BOOLEAN : Compute(0, should)

SpecList == InitList /\ [][NextList]_vars

(***************************************************************************)
(* The data location of the CUDA build, for two particles of which one     *)
(* moves.  The state gpu is entered by the compute of a class that builds  *)
(* the list on the device; those classes are not part of these sources,    *)
(* and DeviceCompute stands for them: the same update test, the list       *)
(* written to the device memory only.                                      *)
(***************************************************************************)
\* the list built into the device memory, the data now on the device
RebuiltOnDevice(l, pd) ==
    [l EXCEPT !.m_gpu_nlist.d_array = HostArrayOf(BuildList(l, pd), getN(pd)),
              !.m_data_location = "gpu"]

DeviceCompute(timestep) ==
    LET u == needsUpdating(checkForceUpdate(nl, pdata), pdata, timestep)
        built == RebuiltOnDevice(u.nl, pdata)
    IN /\ nl' = IF u.result THEN built ELSE u.nl
       /\ op' = [op EXCEPT
                   !.name = "computeGPU",
                   !.thrown = FALSE,
                   !.needs = <<>>,
                   !.returned = <<>>,
                   !.ref = IF u.result THEN <<pdata.x>> ELSE @,
                   !.latest = IF u.result
                              THEN ListOf(built.m_gpu_nlist.d_array, getN(pdata))
                              ELSE @]
       /\ UNCHANGED pdata
       /\ ShapesUnchanged

InitLocation ==
    \E H \in BoxHalves, binned \in BOOLEAN, r_buff \in SettingBuffers :
        \E x1 \in Positions(H) :
            Constructed(ParticleData(<<0, x1>>, <<0, 1>>, H), 1, r_buff, binned, 0)

NextLocation ==
    \/ \E x \in Positions(pdata.box.xhi) : MoveParticle(1, x)
    \/ \E timestep \in Timesteps, should \in BOOLEAN : Compute(timestep, should)
    \/ \E timestep \in Timesteps : DeviceCompute(timestep)
    \/ GetList
    \/ GetListGPU

SpecLocation == InitLocation /\ [][NextLocation]_vars

(***************************************************************************)
(* The bins of BinnedNeighborList::updateBins along the three axes, for    *)
(* one particle in a box [-Hx, Hx) x [-Hy, Hy) x [-Hz, Hz).  pdata holds   *)
(* the box and the position, nl the cutoff and the buffer, op the bin      *)
(* counts and the bin of the particle after the call.  The coordinates     *)
(* and the radii are integers and the divisions of Scalars are exact.      *)
(* When the sanity assertion of line 182 does not hold the build with      *)
(* assertions aborts there; the build without them goes on to line 187     *)
(* with the index it computed, which it stores into when it is inside the  *)
(* arrays and which is a write out of the arrays otherwise.                *)
(***************************************************************************)
BinHalves == 1..MaxBinHalf

\* lines 128-136: the bin counts m_Mx, m_My, m_Mz
BinCounts(box, r_cut, r_buff) ==
    LET Mx == (box.xhi - box.xlo) \div (r_cut + r_buff)
        My == (box.yhi - box.ylo) \div (r_cut + r_buff)
        Mz == (box.zhi - box.zlo) \div (r_cut + r_buff)
    IN [m_Mx |-> IF Mx = 0 THEN 1 ELSE Mx,
        m_My |-> IF My = 0 THEN 1 ELSE My,
        m_Mz |-> IF Mz = 0 THEN 1 ELSE Mz]

\* lines 139-141: binx, biny and binz, each a fraction <<length, divisor>>;
\* the three are divided by Scalar(m_Mx)
BinEdges(box, M) ==
    [binx |-> <<box.xhi - box.xlo, M.m_Mx>>,
     biny |-> <<box.yhi - box.ylo, M.m_Mx>>,
     binz |-> <<box.zhi - box.zlo, M.m_Mx>>]

\* lines 144-146, 169-171: (coordinate - lo) * (1 / edge) cut to an unsigned int
BinScaled(d, edge) == (d * edge[2]) \div edge[1]

\* lines 174-179: a particle exactly at the box hi
AtBoxHi(c, M) == IF c = M THEN 0 ELSE c

\* lines 166-187 for one particle: ib, jb, kb after lines 174-179, whether the
\* assertion of line 182 holds, and the index of line 185
BinOfParticle(box, M, x, y, z) ==
    LET edges == BinEdges(box, M)
        ib == AtBoxHi(BinScaled(x - box.xlo, edges.binx), M.m_Mx)
        jb == AtBoxHi(BinScaled(y - box.ylo, edges.biny), M.m_My)
        kb == AtBoxHi(BinScaled(z - box.zlo, edges.binz), M.m_Mz)
    IN [ib |-> ib, jb |-> jb, kb |-> kb,
        sane |-> ib < M.m_Mx /\ jb < M.m_My /\ kb < M.m_Mz,
        bin |-> ib * (M.m_My * M.m_Mz) + jb * M.m_Mz + kb]

\* how the call ends for a particle: the outcomes of lines 182-187
BinOutcomes(M, p) ==
    IF p.sane THEN {"binned"}
    ELSE {"assertion failed"}
         \cup (IF p.bin < M.m_Mx * M.m_My * M.m_Mz THEN {"binned"} ELSE {"out of range"})

InitBins ==
    \E Hx \in BinHalves, Hy \in BinHalves, Hz \in BinHalves :
        \E x \in Positions(Hx), y \in Positions(Hy), z \in Positions(Hz),
           r_cut \in CutoffRadii, r_buff \in SettingBuffers :
            /\ pdata = [box |-> [xlo |-> -Hx, xhi |-> Hx, ylo |-> -Hy, yhi |-> Hy,
                                 zlo |-> -Hz, zhi |-> Hz],
                        x |-> x, y |-> y, z |-> z]
            /\ nl = [m_r_cut |-> r_cut, m_r_buff |-> r_buff]
            /\ op = [name |-> "new"]
            /\ ShapesIdle

\* BinnedNeighborList::updateBins (lines 114-193) on the particle
UpdateBins ==
    /\ op.name = "new"
    /\ LET M == BinCounts(pdata.box, nl.m_r_cut, nl.m_r_buff)
           p == BinOfParticle(pdata.box, M, pdata.x, pdata.y, pdata.z)
       IN \E outcome \in BinOutcomes(M, p) :
             op' = [name |-> "updateBins", M |-> M, edges |-> BinEdges(pdata.box, M),
                    particle |-> p, outcome |-> outcome]
    /\ UNCHANGED <<nl, pdata>>
    /\ ShapesUnchanged

NextBins == UpdateBins

SpecBins == InitBins /\ [][NextBins]_vars

(***************************************************************************)
(* The exclusions of particle 0 with each of the other particles, in a     *)
(* NeighborList of MaxTag + 1 particles that do not move: addExclusion on  *)
(* tag 0 and another tag, in either order, or on a tag one past the last,  *)
(* for a pair that is not stored yet on either side (line 421: it is the   *)
(* caller's responsibility to not add duplicate entries), and compute,     *)
(* which clears the force flag.                                            *)
(***************************************************************************)
HubTags == 0..MaxTag

InitExclusions ==
    Constructed(ParticleData([k \in 1..(MaxTag + 1) |-> 0], [k \in 1..(MaxTag + 1) |-> k - 1], 2),
                1, 1, FALSE, 0)

\* addExclusion(tag1, tag2) of a pair with particle 0 that is not stored
AddHubExclusion(tag1, tag2) ==
    /\ tag1 # tag2
    /\ tag1 = 0 \/ tag2 = 0
    /\ (tag1 \in HubTags /\ tag2 \in HubTags) =>
          ~InSlots(nl, tag1, tag2) /\ ~InSlots(nl, tag2, tag1)
    /\ AddExclusion(tag1, tag2)

NextExclusions ==
    \/ \E tag1 \in 0..(MaxTag + 1), tag2 \in 0..(MaxTag + 1) : AddHubExclusion(tag1, tag2)
    \/ Compute(0, TRUE)

SpecExclusions == InitExclusions /\ [][NextExclusions]_vars

(***************************************************************************)
(* Helpers of the properties.                                              *)
(***************************************************************************)
RECURSIVE Tested(_)
\* the member pairs handed to the primitive test over a log of calls
Tested(log) == IF log = <<>> THEN <<>> ELSE Head(log).tested \o Tested(Tail(log))

RECURSIVE Signals(_)
\* the degeneracy signals raised over a log of calls
Signals(log) == IF log = <<>> THEN 0 ELSE Head(log).signals + Signals(Tail(log))

RECURSIVE ScannedLeaves(_)
\* the leaves the narrow phase ran on over a log of calls
ScannedLeaves(log) == IF log = <<>> THEN <<>> ELSE Head(log).leaves \o ScannedLeaves(Tail(log))

Range(f) == {f[x] : x \in DOMAIN f}

Inst(tag) == IF tag = "a" THEN a ELSE b

NumLeavesA == Cardinality(DOMAIN a.members.tree.leafNodes)

NumLeavesB == Cardinality(DOMAIN b.members.tree.leafNodes)

\* the leaf index of a leaf node
LeafIndexOf(tree, node) == CHOOSE l \in DOMAIN tree.leafNodes : tree.leafNodes[l] = node

(***************************************************************************)
(* C1.  Symmetry of the dispatcher: the value returned by                  *)
(* test_overlap(r_ab, a, b) is the value test_overlap(-r_ab, b, a)         *)
(* returns, whichever side drives, equal leaf counts included.             *)
(***************************************************************************)
Symmetry ==
    AllDone => ret[0] = test_overlap(-r_ab, b, a, errIn, 0, 1, degen).result

\* a finished overlapping call on two different three-leaf hierarchies, where
\* the driving side flips with the argument order
SymmetryWitness ==
    /\ AllDone
    /\ NumLeavesA = 3 /\ NumLeavesB = 3
    /\ a.members.tree # b.members.tree
    /\ a.orientation # b.orientation
    /\ r_ab # 0
    /\ ret[0]

(***************************************************************************)
(* C2.  Error accumulation: after the call the caller's counter is its     *)
(* value on entry plus the number of degeneracy signals the primitive      *)
(* tests raised during the call.                                           *)
(***************************************************************************)
ErrAccumulated ==
    AllDone => err[0] = errIn + Signals(calls[0])

(***************************************************************************)
(* C3.  A degeneracy signal never ends the scan early: the pairs tested,   *)
(* the leaves scanned and the value returned are those of the same call    *)
(* in a run where no primitive test raises the signal.                     *)
(***************************************************************************)
SignalNeverEndsScan ==
    AllDone =>
        LET clean == test_overlap(r_ab, a, b, errIn, 0, 1, "none")
        IN /\ ret[0] = clean.result
           /\ Tested(calls[0]) = Tested(clean.calls)
           /\ ScannedLeaves(calls[0]) = ScannedLeaves(clean.calls)

\* a finished call in which a signal was raised and pairs were tested after it
SignalNeverEndsScanWitness ==
    /\ AllDone
    /\ Signals(calls[0]) > 0
    /\ \E k \in 1..Len(calls[0]) :
          /\ calls[0][k].signals > 0
          /\ Len(calls[0][k].tested) > calls[0][k].signals
          /\ k < Len(calls[0])

AllMasksDisjoint ==
    \A i \in DOMAIN a.members.moverlap, j \in DOMAIN b.members.moverlap :
        BitAnd(a.members.moverlap[i], b.members.moverlap[j]) = 0

(***************************************************************************)
(* C4.  Mask gating: when every member mask of a ANDs to zero with every   *)
(* member mask of b, test_overlap returns false and no primitive test is   *)
(* invoked.                                                                *)
(***************************************************************************)
MaskGating ==
    AllMasksDisjoint => \A w \in Workers : ~ret[w] /\ Tested(calls[w]) = <<>>

\* a finished call on disjoint masks whose narrow phase ran on overlapping
\* members
MaskGatingWitness ==
    /\ AllDone
    /\ AllMasksDisjoint
    /\ a.members.N >= 2 /\ b.members.N >= 2
    /\ r_ab = 0
    /\ Len(ScannedLeaves(calls[0])) >= 2

LeafResult(l) ==
    IF NumLeavesA <= NumLeavesB
    THEN query_node(a.members.tree.leafNodes[l], r_ab, a, b, degen).result
    ELSE query_node(b.members.tree.leafNodes[l], -r_ab, b, a, degen).result

(***************************************************************************)
(* C5.  The dispatcher's result is the OR over the leaves of the driving   *)
(* hierarchy: it is true iff query_node is true for some driving leaf, and *)
(* false only after query_node returned false for every driving leaf.      *)
(***************************************************************************)
ResultIsOrOverLeaves ==
    AllDone =>
        LET n == IF NumLeavesA <= NumLeavesB THEN NumLeavesA ELSE NumLeavesB
        IN /\ ret[0] = (\E l \in 0..(n - 1) : LeafResult(l))
           /\ ~ret[0] => /\ Len(calls[0]) = n
                         /\ \A k \in 1..n : ~calls[0][k].result

\* a finished call that returned true on a leaf after the first
ResultIsOrOverLeavesWitness ==
    /\ AllDone
    /\ ret[0]
    /\ Len(calls[0]) >= 3

(***************************************************************************)
(* C6.  Driving side: the leaves enumerated are those of the hierarchy     *)
(* with fewer leaves, a's on a tie; when a drives query_node gets          *)
(* (leaf of a, r_ab, a, b), when b drives (leaf of b, -r_ab, b, a).        *)
(***************************************************************************)
DrivingSide ==
    \A w \in Workers : \A k \in 1..Len(calls[w]) :
        LET c == calls[w][k]
            l == w + (k - 1) * stride
        IN IF NumLeavesA <= NumLeavesB
           THEN /\ c.first = "a" /\ c.second = "b"
                /\ c.r = r_ab
                /\ c.node = a.members.tree.leafNodes[l]
           ELSE /\ c.first = "b" /\ c.second = "a"
                /\ c.r = -r_ab
                /\ c.node = b.members.tree.leafNodes[l]

\* b drove with a non-zero offset and ran all its leaves
DrivingSideWitness ==
    /\ AllDone
    /\ NumLeavesA > NumLeavesB
    /\ r_ab # 0
    /\ Len(calls[0]) = NumLeavesB
    /\ NumLeavesB >= 2

\* a drove on a tie
DrivingSideTie ==
    /\ AllDone
    /\ NumLeavesA = NumLeavesB
    /\ Len(calls[0]) >= 2

DrivingTree ==
    IF NumLeavesA <= NumLeavesB THEN a.members.tree ELSE b.members.tree

ProcessedBy(l) ==
    {wk \in {x \in Workers \X (1..Cardinality(DOMAIN DrivingTree.leafNodes)) :
                x[2] <= Len(calls[x[1]])} :
        LeafIndexOf(DrivingTree, calls[wk[1]][wk[2]].node) = l}

ParallelSplitAllRun ==
    /\ stride >= 2
    /\ AllDone
    /\ \A w \in Workers : ~ret[w] /\ Len(calls[w]) >= 1
    /\ Len(calls[0]) >= 2

ExhaustiveScan ==
    \E i \in DOMAIN a.members.mpos, j \in DOMAIN b.members.mpos :
        /\ BitAnd(a.members.moverlap[i], b.members.moverlap[j]) # 0
        /\ LET x_i == rotate(a.orientation, a.members.mpos[i])
               x_j == r_ab + rotate(b.orientation, b.members.mpos[j])
               R == a.members.mparams[i] + b.members.mparams[j]
           IN (x_j - x_i) * (x_j - x_i) < R * R

(***************************************************************************)
(* C8.  Trivial-tree equivalence: when both hierarchies are a single leaf  *)
(* holding all members, test_overlap returns what the exhaustive scan of   *)
(* all member pairs returns: true iff some pair with a shared mask bit     *)
(* overlaps.  The exhaustive scan places the members in the world frame.   *)
(***************************************************************************)
TrivialTreeEquivalence ==
    (/\ AllDone
     /\ a.members.tree.numNodes = 1
     /\ b.members.tree.numNodes = 1) => ret[0] = ExhaustiveScan

\* two single-leaf composites of two members each, differently oriented,
\* found overlapping after a first pair that did not overlap
TrivialTreeEquivalenceWitness ==
    /\ AllDone
    /\ a.members.tree.numNodes = 1 /\ a.members.N = 2
    /\ b.members.tree.numNodes = 1 /\ b.members.N = 2
    /\ a.orientation # b.orientation
    /\ ret[0]
    /\ Len(Tested(calls[0])) >= 2

SingleMemberCase ==
    /\ a.members.N = 1 /\ a.members.mpos[0] = 0
    /\ b.members.N = 1 /\ b.members.mpos[0] = 0
    /\ a.orientation = b.orientation
    /\ BitAnd(a.members.moverlap[0], b.members.moverlap[0]) # 0

(***************************************************************************)
(* C9.  Single-member reduction: two composites of one member each at      *)
(* local position 0, with the same orientation and masks sharing a bit,    *)
(* overlap exactly when the primitive test of the two members at offset    *)
(* r_ab says so.                                                           *)
(***************************************************************************)
SingleMemberReduction ==
    (AllDone /\ SingleMemberCase) =>
        ret[0] = PrimTestOverlap(r_ab,
                                 Shape(a.orientation, a.members.mparams[0]),
                                 Shape(b.orientation, b.members.mparams[0]),
                                 0, degen).overlap

\* the single-member case at exact contact: the boxes touch, the spheres do
\* not overlap
SingleMemberReductionWitness ==
    /\ AllDone
    /\ SingleMemberCase
    /\ a.orientation = -1
    /\ r_ab * r_ab = 4
    /\ ~ret[0]
    /\ Len(Tested(calls[0])) = 1

\* the nodes below node n
Descendants(tree, n) == (n + 1)..(tree.skip[n] - 1)

BoxesNested(obb_a, tree) ==
    \A n \in DOMAIN tree.obb : \A m \in Descendants(tree, n) :
        overlap(obb_a, tree.obb[m]) => overlap(obb_a, tree.obb[n])

TraversalOutputOf(c) ==
    LET A == Inst(c.first)
        B == Inst(c.second)
        tree_b == B.members.tree
        obb_a == TransformedOBB(c.node, c.r, A, B)
        hit == {lb \in Range(tree_b.leafNodes) : overlap(obb_a, tree_b.obb[lb])}
    IN BoxesNested(obb_a, tree_b) =>
          /\ c.result = (\E lb \in hit :
                            test_narrow_phase_overlap(c.r, A, B, c.node, lb, degen).result)
          /\ ~c.result => Range(c.leaves) = hit
          /\ Range(c.leaves) \subseteq hit

(***************************************************************************)
(* C10.  Dual-tree traversal output: provided a node's box of b overlaps   *)
(* the transformed box of a's node whenever the box of one of its          *)
(* descendants does, query_node returns true iff some leaf of b whose box  *)
(* overlaps the transformed box has a positive narrow-phase test, and a    *)
(* call that returns false has scanned every such leaf.                    *)
(***************************************************************************)
TraversalOutput ==
    \A w \in Workers : \A k \in 1..Len(calls[w]) : TraversalOutputOf(calls[w][k])

\* a call on a hierarchy of two levels that found the overlap on a leaf of
\* the second level after descending past a leaf
TraversalOutputWitness ==
    \E k \in 1..Len(calls[0]) :
        LET c == calls[0][k]
            tree_b == Inst(c.second).members.tree
        IN /\ tree_b.numNodes >= 5
           /\ BoxesNested(TransformedOBB(c.node, c.r, Inst(c.first), Inst(c.second)), tree_b)
           /\ c.result
           /\ Len(c.visited) >= 2
           /\ Len(c.leaves) >= 2

\* a call where the boxes are not nested and a leaf whose box overlaps was
\* pruned
TraversalOutputPruned ==
    \E k \in 1..Len(calls[0]) :
        LET c == calls[0][k]
            tree_b == Inst(c.second).members.tree
            obb_a == TransformedOBB(c.node, c.r, Inst(c.first), Inst(c.second))
        IN /\ ~BoxesNested(obb_a, tree_b)
           /\ ~c.result
           /\ \E lb \in Range(tree_b.leafNodes) :
                 overlap(obb_a, tree_b.obb[lb]) /\ lb \notin Range(c.leaves)

Abs(x) == IF x < 0 THEN -x ELSE x

BroadPhaseValue ==
    circ # <<>> =>
        /\ circ[1] = (2 * Abs(r_ab) <= a.members.diameter + b.members.diameter)
        /\ circ[1] = check_circumsphere_overlap(r_ab, b, a)
        /\ circ[1] = check_circumsphere_overlap(-r_ab, a, b)
        /\ circ[1] = check_circumsphere_overlap(-r_ab, b, a)

(***************************************************************************)
(* C11.  Broad-phase rule: check_circumsphere_overlap(r_ab, a, b) returns  *)
(* true exactly when 4 |r_ab|^2 <= (D_a + D_b)^2, that is when twice the   *)
(* distance is at most the sum of the diameters, exact contact included;   *)
(* the result is the same with a and b exchanged or r_ab negated; and the  *)
(* call changes neither the instances nor the offset.                      *)
(***************************************************************************)
BroadPhaseRule ==
    /\ []BroadPhaseValue
    /\ [][Circumsphere => (a' = a /\ b' = b /\ r_ab' = r_ab)]_vars

\* the broad phase ran on two different composites at exact contact
BroadPhaseRuleWitness ==
    /\ circ = <<TRUE>>
    /\ r_ab # 0
    /\ 2 * Abs(r_ab) = a.members.diameter + b.members.diameter
    /\ a.members.diameter # b.members.diameter

\* the diameter of the instance covers every member sphere about the origin
DiameterCovers(inst) ==
    \A k \in DOMAIN inst.members.mpos :
        2 * (Abs(inst.members.mpos[k]) + inst.members.mparams[k]) <= inst.members.diameter

(***************************************************************************)
(* C12.  Broad-phase soundness: with bounding diameters that cover the     *)
(* members, whenever test_overlap(r_ab, a, b) returns true,                *)
(* check_circumsphere_overlap(r_ab, a, b) returns true.                    *)
(***************************************************************************)
BroadPhaseSound ==
    (AllDone /\ circ # <<>> /\ DiameterCovers(a) /\ DiameterCovers(b) /\ ret[0])
        => circ[1]

\* both calls were made and the exact test found an overlap of members away
\* from the origins
BroadPhaseSoundWitness ==
    /\ AllDone
    /\ circ = <<TRUE>>
    /\ ret[0]
    /\ DiameterCovers(a) /\ DiameterCovers(b)
    /\ Abs(r_ab) >= 3
    /\ a.members.N >= 2 /\ b.members.N >= 2

\* the filter passes a pair the exact test rejects
BroadPhaseFalsePositive ==
    /\ AllDone
    /\ circ = <<TRUE>>
    /\ ~ret[0]
    /\ a.members.N >= 1 /\ b.members.N >= 1

(***************************************************************************)
(* C14.  Read-only queries: no step of check_circumsphere_overlap,         *)
(* test_narrow_phase_overlap, query_node or test_overlap changes the       *)
(* orientation of either instance or anything of the parameter blocks,     *)
(* whether the step returns early or not.                                  *)
(***************************************************************************)
ReadOnlyQueries ==
    [][/\ a'.orientation = a.orientation
       /\ b'.orientation = b.orientation
       /\ a'.members = a.members
       /\ b'.members = b.members]_vars

\* the broad phase ran and the exact test returned early, before the last
\* leaf of the driving hierarchy
ReadOnlyQueriesWitness ==
    /\ AllDone
    /\ circ # <<>>
    /\ ret[0]
    /\ cur_leaf[0] + 1 < DrivingLeaves(a, b)
    /\ Len(Tested(calls[0])) >= 1

DumbbellD == Abs(r_ab)

DumbbellOffset == a.members.mpos[1] - a.members.mpos[0]

DumbbellRadius == a.members.mparams[0]

\* the statement as written
DumbbellOverlapAsStated ==
    AllDone => (ret[0] <=> DumbbellD < DumbbellOffset + 2 * DumbbellRadius)

(***************************************************************************)
(* C13.  Dumbbell scenario: for two dumbbells of sphere radius r and       *)
(* offset d, same orientation, centers D apart along x, test_overlap       *)
(* returns true exactly when D < d + 2r, whatever the grouping of the two  *)
(* members into leaves.                                                    *)
(* As stated this fails once d >= 4r: for 2r <= D <= d - 2r the spheres of *)
(* one dumbbell sit between those of the other without touching them.      *)
(* What holds is: true exactly when D < 2r or d - 2r < D < d + 2r, which   *)
(* is D < d + 2r whenever d < 4r.                                          *)
(***************************************************************************)
DumbbellOverlap ==
    AllDone =>
        /\ ret[0] <=> \/ DumbbellD < 2 * DumbbellRadius
                      \/ /\ DumbbellOffset - 2 * DumbbellRadius < DumbbellD
                         /\ DumbbellD < DumbbellOffset + 2 * DumbbellRadius
        /\ DumbbellOffset < 4 * DumbbellRadius =>
              (ret[0] <=> DumbbellD < DumbbellOffset + 2 * DumbbellRadius)

\* a finished call on a one-leaf and a two-leaf dumbbell that overlap only by
\* the far sphere of one and the near sphere of the other
DumbbellOverlapWitness ==
    /\ AllDone
    /\ ret[0]
    /\ NumLeavesA # NumLeavesB
    /\ DumbbellD >= DumbbellOffset + DumbbellRadius
    /\ DumbbellOffset >= 2

\* a finished call on interleaved dumbbells that do not overlap
DumbbellInterleaved ==
    /\ AllDone
    /\ ~ret[0]
    /\ DumbbellD < DumbbellOffset + 2 * DumbbellRadius

QueryDone == qn.pc = "done"

\* the values cur_node_b has taken are internal nodes of b, each taken once
VisitedOnce ==
    LET v == qn.st.acc.visited
    IN /\ \A i \in 1..Len(v) :
             /\ v[i] \in 0..(getNumNodes(b.members.tree) - 1)
             /\ ~isLeaf(b.members.tree, v[i])
       /\ \A i, j \in 1..Len(v) : v[i] = v[j] => i = j

\* how the loop ended
EndedByReturnOrSentinel ==
    (QueryDone /\ getNumNodes(b.members.tree) # 1) =>
        \/ qn.st.returned /\ qn.st.acc.result
        \/ /\ ~qn.st.returned
           /\ qn.st.cur = getNumNodes(b.members.tree)
           /\ qn.st.stack = <<>>

(***************************************************************************)
(* C20.  Termination of the traversal: on every hierarchy of b in which    *)
(* each internal node has two children, the loop of query_node ends, by    *)
(* the early true return or by popping the sentinel, and until then each   *)
(* internal node of b has been the current node at most once.              *)
(***************************************************************************)
TraversalTerminates ==
    /\ <>QueryDone
    /\ [](VisitedOnce /\ EndedByReturnOrSentinel)

\* a traversal that ended by popping the sentinel after every internal node
\* of a seven-node hierarchy had been the current node
TraversalTerminatesWitness ==
    /\ QueryDone
    /\ ~qn.st.returned
    /\ getNumNodes(b.members.tree) = 7
    /\ Len(qn.st.acc.visited) = 3

\* a traversal that ended by the early return while a node was still stacked
TraversalEarlyReturn ==
    /\ QueryDone
    /\ qn.st.returned
    /\ Len(qn.st.stack) >= 2

\* the steps compute what the function computes
QueryStepsAgree ==
    QueryDone =>
        LET q == query_node(qn.cur_node_a, r_ab, a, b, degen)
        IN qn.st.acc = [q EXCEPT !.result = qn.st.acc.result]
           /\ q.result = (qn.st.returned /\ qn.st.acc.result)

(***************************************************************************)
(* Helpers of the neighbor-list properties.                                *)
(***************************************************************************)
\* the members of a sequence
Members(seq) == {seq[k] : k \in 1..Len(seq)}

\* the distance of two positions by the nearest periodic image
ImageDistance(x, y, box) ==
    LET L == box.xhi - box.xlo
        d == (x - y) % L
    IN IF 2 * d <= L THEN d ELSE L - d

\* particles i and j are closer than r_cut + r_buff
Near(l, pd, i, j) ==
    ImageDistance(pd.x[i], pd.x[j], pd.box) < l.m_r_cut + l.m_r_buff

\* the list holds what the settings of l ask for on the positions of pd: j is
\* listed with i exactly when the two are near, not excluded, and, in half
\* mode, i < j (the exclusion looked up on the side of the particle whose
\* slots the class reads)
ListBuiltFor(list, l, pd) ==
    \A i, j \in 0..(pd.N - 1) :
        j \in Members(list[i]) <=>
            /\ i # j
            /\ Near(l, pd, i, j)
            /\ (l.m_storage_mode = "full" \/ i < j)
            /\ LET owner == IF l.binned \/ i < j THEN i ELSE j
                   other == IF owner = i THEN j ELSE i
               IN ~InSlots(l, pd.tag[owner], pd.tag[other])

SettingStored ==
    /\ (op'.name = "setRCut" /\ ~op'.thrown) =>
          /\ \A r_cut \in CutoffRadii, r_buff \in SettingBuffers :
                SetRCut(r_cut, r_buff) => nl'.m_r_cut = r_cut /\ nl'.m_r_buff = r_buff
          /\ nl'.m_list = nl.m_list
          /\ nl'.m_force_update
    /\ op'.name = "setStorageMode" =>
          /\ \A mode \in StorageModes :
                SetStorageMode(mode) => nl'.m_storage_mode = mode
          /\ nl'.m_list = nl.m_list
          /\ nl'.m_force_update
    /\ (op'.name = "addExclusion" /\ ~op'.thrown) =>
          /\ \A tag1 \in 0..pdata.N, tag2 \in 0..pdata.N :
                AddExclusion(tag1, tag2) =>
                    InSlots(nl', tag1, tag2) /\ InSlots(nl', tag2, tag1)
          /\ nl'.m_list = nl.m_list
          /\ nl'.m_force_update

FlagKept == (nl.m_force_update /\ op'.name # "compute") => nl'.m_force_update

ForcedRebuild ==
    (nl.m_force_update /\ op'.name = "compute") =>
        /\ op'.needs # <<>>
        /\ op'.needs[1].result
        /\ ListBuiltFor(nl'.m_list, nl, pdata)
        /\ nl'.m_r_cut = nl.m_r_cut /\ nl'.m_r_buff = nl.m_r_buff
        /\ nl'.m_storage_mode = nl.m_storage_mode
        /\ nl'.m_exclusions = nl.m_exclusions

MovedMoreThanHalf(ref, l, pd) ==
    \E i \in 0..(pd.N - 1) : 2 * ImageDistance(pd.x[i], ref[i], pd.box) > l.m_r_buff

\* some particle is at least half the buffer from its position in ref
MovedAtLeastHalf(ref, l, pd) ==
    \E i \in 0..(pd.N - 1) : 2 * ImageDistance(pd.x[i], ref[i], pd.box) >= l.m_r_buff

\* the saved positions are overwritten by the step
LastSaved == nl'.m_last_x = pdata.x

\* the saved positions and the step of the last update are kept by the step
LastKept ==
    nl'.m_last_x = nl.m_last_x /\ nl'.m_last_updated_tstep = nl.m_last_updated_tstep

\* the step is a compute that called needsUpdating
CallsNeedsUpdating == op'.name = "compute" /\ op'.needs # <<>>

\* the update is forced when needsUpdating is entered: the flag is up or the
\* particle data was sorted at or after the last update
UpdateForced ==
    nl.m_force_update \/ nl.m_last_updated_tstep <= pdata.lastSortedTstep

NeedsUpdatingGated ==
    /\ op.name = "compute"
    /\ op.needs # <<>>
    /\ op.needs[1].path = "early"
    /\ ~op.needs[1].still

\* the last call was a compute that rebuilt the list
JustRebuilt == op.name = "compute" /\ op.needs # <<>> /\ op.needs[1].result

\* the tags of the particles i and j are stored in each other's slots, as
\* after an addExclusion on them that returned
ExcludedPair(i, j) ==
    InSlots(nl, pdata.tag[i], pdata.tag[j]) /\ InSlots(nl, pdata.tag[j], pdata.tag[i])

\* no excluded pair is in the list
ExclusionsKept ==
    \A i, j \in 0..(pdata.N - 1) :
        ExcludedPair(i, j) =>
            j \notin Members(nl.m_list[i]) /\ i \notin Members(nl.m_list[j])

(***************************************************************************)
(* C17.  Exclusions.  After a compute has rebuilt the list, two particles  *)
(* whose tags were excluded from each other by a call of addExclusion that *)
(* returned are not in each other's list, in half and in full mode, in the *)
(* simple and in the binned list; and this stays so over every call that   *)
(* is not addExclusion.                                                    *)
(***************************************************************************)
ExclusionsHonoured ==
    /\ [](JustRebuilt => ExclusionsKept)
    /\ [][(ExclusionsKept /\ op'.name # "addExclusion") => ExclusionsKept']_vars

\* the binned list was rebuilt in full mode with tags that are not the
\* indices: two particles closer than the cutoff are excluded and left out,
\* and another pair is listed
ExclusionsHonouredWitness ==
    /\ JustRebuilt
    /\ nl.binned
    /\ nl.m_storage_mode = "full"
    /\ pdata.tag[0] # 0
    /\ \E i, j \in 0..(pdata.N - 1) :
          i # j /\ Near(nl, pdata, i, j) /\ ExcludedPair(i, j)
    /\ \E i \in 0..(pdata.N - 1) : nl.m_list[i] # <<>>

\* the same in the simple list in half mode
ExclusionsHonouredSimple ==
    /\ JustRebuilt
    /\ ~nl.binned
    /\ nl.m_storage_mode = "half"
    /\ \E i, j \in 0..(pdata.N - 1) :
          i # j /\ Near(nl, pdata, i, j) /\ ExcludedPair(i, j)
    /\ \E i \in 0..(pdata.N - 1) : nl.m_list[i] # <<>>

RECURSIVE Count(_, _)
\* the number of times v is in the sequence
Count(seq, v) ==
    IF seq = <<>> THEN 0
    ELSE (IF Head(seq) = v THEN 1 ELSE 0) + Count(Tail(seq), v)

\* i and j are neighbours: closer than the cutoff and not excluded
Neighbouring(i, j) ==
    i # j /\ Near(nl, pdata, i, j) /\ ~ExcludedPair(i, j)

HalfListed ==
    \A i, j \in 0..(pdata.N - 1) :
        /\ j \in Members(nl.m_list[i]) => i < j
        /\ (i < j /\ Neighbouring(i, j)) => Count(nl.m_list[i], j) = 1

FullListed ==
    \A i, j \in 0..(pdata.N - 1) :
        j \in Members(nl.m_list[i]) <=> i \in Members(nl.m_list[j])

(***************************************************************************)
(* C18.  Storage modes.  After a rebuild in half mode every entry j of     *)
(* particle i's list has i < j and each neighbouring pair is stored once;  *)
(* after a rebuild in full mode j is in i's list exactly when i is in j's  *)
(* list; the mode is half after construction.                              *)
(***************************************************************************)
StorageModes_AsStated ==
    /\ op.name = "new" => nl.m_storage_mode = "half"
    /\ (JustRebuilt /\ nl.m_storage_mode = "half") => HalfListed
    /\ (JustRebuilt /\ nl.m_storage_mode = "full") => FullListed

\* the same for the simple list alone
StorageModesSimple == ~nl.binned => StorageModes_AsStated

\* the same for the binned list with three bins or more
StorageModesThreeBins ==
    (nl.binned /\ NumBins(nl, pdata) >= 3) => StorageModes_AsStated

\* the binned list with fewer than three bins holds a neighbour twice
StorageModesDuplicate ==
    /\ JustRebuilt
    /\ nl.binned
    /\ NumBins(nl, pdata) < 3
    /\ \E i, j \in 0..(pdata.N - 1) : Count(nl.m_list[i], j) > 1

\* the copy returned by the last getList or getListGPU is the list built last
ReturnedIsLatest == op.returned # <<>> => op.returned[1] = op.latest

\* the location after each call
LocationStep ==
    /\ (op'.name = "compute" /\ op'.needs # <<>> /\ op'.needs[1].result) =>
          nl'.m_data_location = "cpu"
    /\ (op'.name = "compute" /\ ~(op'.needs # <<>> /\ op'.needs[1].result)) =>
          nl'.m_data_location = nl.m_data_location
    /\ op'.name = "getList" =>
          IF nl.m_data_location = "gpu"
          THEN /\ nl'.m_data_location = "cpugpu"
               /\ nl'.m_list = ListOf(nl.m_gpu_nlist.d_array, pdata.N)
               /\ nl'.m_gpu_nlist.d_array = nl.m_gpu_nlist.d_array
          ELSE nl' = nl
    /\ op'.name = "getListGPU" =>
          IF nl.m_data_location = "cpu"
          THEN /\ nl'.m_data_location = "cpugpu"
               /\ ListOf(nl'.m_gpu_nlist.d_array, pdata.N) = nl.m_list
               /\ nl'.m_list = nl.m_list
          ELSE nl' = nl
    /\ op'.name \notin {"compute", "computeGPU", "getList", "getListGPU"} =>
          nl'.m_data_location = nl.m_data_location

(***************************************************************************)
(* C19.  Data location of the CUDA build.  The copy returned by getList or *)
(* getListGPU holds the list computed last; a compute that rebuilds sets   *)
(* the location to cpu, getList in state gpu copies device to host and     *)
(* moves to cpugpu, getListGPU in state cpu copies host to device and      *)
(* moves to cpugpu, every other call leaves the location as it was, and    *)
(* the location is always one of cpu, cpugpu, gpu.                         *)
(***************************************************************************)
DataLocation ==
    /\ [](ReturnedIsLatest /\ nl.m_data_location \in {"cpu", "cpugpu", "gpu"})
    /\ [][LocationStep]_vars

\* getListGPU copied a list with an entry to the device after a rebuild on
\* the host
DataLocationWitness ==
    /\ op.name = "getListGPU"
    /\ nl.m_data_location = "cpugpu"
    /\ nl.m_last_updated_tstep >= 1
    /\ op.returned # <<>>
    /\ op.returned[1][0] # <<>>
    /\ op.returned[1] = nl.m_list

\* getList copied a list with an entry back from the device
DataLocationFromDevice ==
    /\ op.name = "getList"
    /\ nl.m_data_location = "cpugpu"
    /\ op.returned # <<>>
    /\ op.returned[1][0] # <<>>
    /\ nl.m_gpu_nlist.h_array = nl.m_gpu_nlist.d_array
    /\ op.ref # <<>>
    /\ op.ref[1] # pdata.x

\* the sentinel of the running call: the node count of b's hierarchy
Sentinel == getNumNodes(b.members.tree)

\* the call is in the loop of the general case or has left it
InGeneralCase == qn.pc = "loop" \/ (qn.pc = "done" /\ Sentinel # 1)

\* the sentinel is the bottom entry and nothing above it is the sentinel; the
\* current node is the sentinel exactly when the stack is empty; every other
\* value of the current node and every other entry is a node of b
SentinelAtBottom ==
    InGeneralCase =>
        /\ (qn.st.cur = Sentinel) <=> (qn.st.stack = <<>>)
        /\ qn.st.stack # <<>> => qn.st.stack[1] = Sentinel
        /\ \A k \in 2..Len(qn.st.stack) : qn.st.stack[k] \in 0..(Sentinel - 1)
        /\ qn.st.cur # Sentinel => qn.st.cur \in 0..(Sentinel - 1)
        /\ qn.pc = "loop" => qn.st.cur # Sentinel

\* a pass of the loop that removes an entry finds one to remove, and only the
\* entry pass puts the sentinel on the stack
PopsNonEmpty ==
    /\ (QueryIterate /\ Len(qn'.st.stack) < Len(qn.st.stack)) =>
          /\ qn.st.stack # <<>>
          /\ qn'.st.cur = qn.st.stack[Len(qn.st.stack)]
          /\ qn'.st.stack = SubSeq(qn.st.stack, 1, Len(qn.st.stack) - 1)
    /\ QueryEnter => qn'.st.stack = <<Sentinel>>

(***************************************************************************)
(* C21.  Sentinel invariant of query_node: the sentinel, the node count of *)
(* b's hierarchy, is pushed once before the loop and stays at the bottom   *)
(* of the stack; after each pass of the loop the current node is the       *)
(* sentinel exactly when the stack is empty; a pop is never made on an     *)
(* empty stack; and no node of b equals the sentinel.                      *)
(***************************************************************************)
SentinelInvariant == []SentinelAtBottom /\ [][PopsNonEmpty]_vars

\* the loop runs with a node of b stacked above the sentinel
SentinelInvariantWitness ==
    /\ qn.pc = "loop"
    /\ Len(qn.st.stack) = 2
    /\ qn.st.stack[1] = Sentinel
    /\ qn.st.stack[2] # Sentinel

\* the loop was left with the sentinel popped from the stack
SentinelPopped ==
    /\ qn.pc = "done"
    /\ Sentinel # 1
    /\ qn.st.cur = Sentinel
    /\ qn.st.stack = <<>>
    /\ ~qn.st.returned

RECURSIVE DepthIn(_, _)
\* the depth of node n in a hierarchy, 0 for the root: n is the left child of
\* its parent or the node that follows the left child's subtree
DepthIn(tree, n) ==
    IF n = 0 THEN 0
    ELSE LET p == CHOOSE m \in 0..(n - 1) :
                    /\ tree.left[m] # InvalidNode
                    /\ tree.left[m] = n \/ tree.skip[tree.left[m]] = n
         IN 1 + DepthIn(tree, p)

\* the number of levels of a hierarchy
Levels(tree) == 1 + SetMax({DepthIn(tree, n) : n \in 0..(getNumNodes(tree) - 1)})

(***************************************************************************)
(* C22.  Stack bound of query_node: the number of entries on the stack,    *)
(* the sentinel included, is at most one plus the depth of the current     *)
(* node in b's hierarchy, and so at most the number of levels of that      *)
(* hierarchy, which keeps the 64-entry array within bounds for a hierarchy *)
(* of at most 64 levels.                                                   *)
(***************************************************************************)
StackBound ==
    (qn.pc = "loop" \/ (qn.pc = "done" /\ Sentinel # 1 /\ qn.st.cur # Sentinel)) =>
        /\ Len(qn.st.stack) <= 1 + DepthIn(b.members.tree, qn.st.cur)
        /\ Len(qn.st.stack) <= Levels(b.members.tree)

\* the stack holds as many entries as the current node's depth allows, below
\* the root
StackBoundWitness ==
    /\ qn.pc = "loop"
    /\ DepthIn(b.members.tree, qn.st.cur) = 1
    /\ Len(qn.st.stack) = 2
    /\ Levels(b.members.tree) = 3

\* child is an internal node of b whose box overlaps the transformed box of a
Qualifies(child) ==
    /\ overlap(TransformedOBB(qn.cur_node_a, r_ab, a, b), getOBB(b.members.tree, child))
    /\ ~isLeaf(b.members.tree, child)

\* a pass of the loop that does not return moves as the rule says
TransitionStep ==
    (QueryIterate /\ ~qn'.st.returned) =>
        LET child_l == getLeftChild(b.members.tree, qn.st.cur)
            child_r == advanceNode(b.members.tree, child_l)
            stack == qn.st.stack
        IN /\ (~Qualifies(child_l) /\ ~Qualifies(child_r)) =>
                 /\ qn'.st.cur = stack[Len(stack)]
                 /\ qn'.st.stack = SubSeq(stack, 1, Len(stack) - 1)
           /\ (Qualifies(child_l) /\ ~Qualifies(child_r)) =>
                 qn'.st.cur = child_l /\ qn'.st.stack = stack
           /\ (~Qualifies(child_l) /\ Qualifies(child_r)) =>
                 qn'.st.cur = child_r /\ qn'.st.stack = stack
           /\ (Qualifies(child_l) /\ Qualifies(child_r)) =>
                 qn'.st.cur = child_l /\ qn'.st.stack = Append(stack, child_r)

\* the k-th value of the current node was left with both children qualifying,
\* the right child pushed
PushedAt(k) ==
    LET child_l == getLeftChild(b.members.tree, qn.st.acc.visited[k])
        child_r == advanceNode(b.members.tree, child_l)
    IN Qualifies(child_l) /\ Qualifies(child_r)

\* when the loop has ended by the sentinel, every right child that was pushed
\* has been the current node of a later pass
PushedProcessed ==
    (qn.pc = "done" /\ Sentinel # 1 /\ ~qn.st.returned) =>
        \A k \in 1..Len(qn.st.acc.visited) :
            PushedAt(k) =>
                \E j \in (k + 1)..Len(qn.st.acc.visited) :
                    qn.st.acc.visited[j] =
                        advanceNode(b.members.tree,
                                    getLeftChild(b.members.tree, qn.st.acc.visited[k]))

(***************************************************************************)
(* C23.  Transition rule of query_node: in a pass that does not return, if *)
(* neither child is an overlapping internal node the next current node is  *)
(* the value popped from the stack; if exactly one is, it is that child    *)
(* and the stack is unchanged; if both are, it is the left child and the   *)
(* right child is pushed; and when the loop has ended without a true       *)
(* return, every pushed right child has been popped and processed.         *)
(***************************************************************************)
TransitionRule ==
    /\ [][TransitionStep]_vars
    /\ []PushedProcessed

\* the right child pushed at the root has been popped and is the current
\* node, after the left child was processed
TransitionRuleWitness ==
    /\ qn.pc = "loop"
    /\ qn.st.acc.visited = <<0, getLeftChild(b.members.tree, 0)>>
    /\ qn.st.cur = advanceNode(b.members.tree, getLeftChild(b.members.tree, 0))
    /\ qn.st.stack = <<Sentinel>>

\* the narrow phase of call c ran only on leaves of the second hierarchy whose
\* box had been tested and overlaps the transformed box of the first one's
\* node, on each at most once, and the root's box was tested in the one-node
\* case only
PruningOf(c) ==
    LET A == Inst(c.first)
        B == Inst(c.second)
        tree_b == B.members.tree
        obb_a == TransformedOBB(c.node, c.r, A, B)
    IN /\ \A k \in 1..Len(c.leaves) :
             /\ isLeaf(tree_b, c.leaves[k])
             /\ c.leaves[k] \in Range(c.boxes)
             /\ overlap(obb_a, getOBB(tree_b, c.leaves[k]))
       /\ \A j, k \in 1..Len(c.leaves) : c.leaves[j] = c.leaves[k] => j = k
       /\ IF getNumNodes(tree_b) = 1 THEN c.boxes = <<0>>
          ELSE 0 \notin Range(c.boxes)

(***************************************************************************)
(* C24.  Pruning: query_node runs the narrow phase on a leaf of b only     *)
(* after that leaf's box has tested as overlapping the transformed box of  *)
(* a, in the one-node case and in the general case, at most once per leaf  *)
(* per call, and in the general case never tests the box of b's root.      *)
(***************************************************************************)
Pruning ==
    \A w \in Workers : \A k \in 1..Len(calls[w]) : PruningOf(calls[w][k])

\* a call on a hierarchy of several nodes that ran the narrow phase on one
\* leaf and passed over another whose box was tested and does not overlap
PruningWitness ==
    \E k \in 1..Len(calls[0]) :
        LET c == calls[0][k]
            tree_b == Inst(c.second).members.tree
            obb_a == TransformedOBB(c.node, c.r, Inst(c.first), Inst(c.second))
        IN /\ getNumNodes(tree_b) >= 3
           /\ Len(c.leaves) >= 1
           /\ \E n \in Range(c.boxes) :
                 /\ isLeaf(tree_b, n)
                 /\ ~overlap(obb_a, getOBB(tree_b, n))
                 /\ n \notin Range(c.leaves)

\* a call on a hierarchy of one node whose box does not overlap: no narrow
\* phase
PruningTrivial ==
    \E k \in 1..Len(calls[0]) :
        LET c == calls[0][k]
        IN getNumNodes(Inst(c.second).members.tree) = 1 /\ c.leaves = <<>> /\ c.boxes = <<0>>

\* the members listed at a leaf, in the order of the list
ListedAt(inst, node) ==
    [k \in 1..getNumParticles(inst.members.tree, node) |->
        getParticle(inst.members.tree, node, k - 1)]

RECURSIVE PairsFrom(_, _, _, _)
\* the pairs of two member lists in i-major, j-minor order, from (i, j) on
PairsFrom(la, lb, i, j) ==
    IF i > Len(la) THEN <<>>
    ELSE IF j > Len(lb) THEN PairsFrom(la, lb, i + 1, 1)
    ELSE <<(<<la[i], lb[j]>>)>> \o PairsFrom(la, lb, i, j + 1)

\* the masks of member i of a and member j of b share a bit
Compatible(pair) ==
    BitAnd(a.members.moverlap[pair[1]], b.members.moverlap[pair[2]]) # 0

\* the spheres of member i of a and member j of b overlap, a at the origin
\* and b at r_ab
MembersOverlap(pair) ==
    LET xa == rotate(a.orientation, a.members.mpos[pair[1]])
        xb == r_ab + rotate(b.orientation, b.members.mpos[pair[2]])
        sum == a.members.mparams[pair[1]] + b.members.mparams[pair[2]]
    IN (xb - xa) * (xb - xa) < sum * sum

\* the mask-compatible pairs of the two leaves of the call, in scan order
ScanOrder ==
    SelectSeq(PairsFrom(ListedAt(a, qn.cur_node_a), ListedAt(b, qn.cur_node_b), 1, 1),
              Compatible)

(***************************************************************************)
(* C25.  Narrow-phase result: test_narrow_phase_overlap returns true       *)
(* exactly when a member i listed at leaf_a and a member j listed at       *)
(* leaf_b have masks sharing a bit and a true primitive test; it returns   *)
(* at the first such pair in i-major, j-minor order without testing a      *)
(* later pair, and returns false only after every pair was considered.     *)
(***************************************************************************)
NarrowPhaseResult ==
    qn.pc = "returned" =>
        LET order == ScanOrder
            hits == {k \in 1..Len(order) : MembersOverlap(order[k])}
        IN /\ qn.scan.result = (hits # {})
           /\ qn.scan.tested =
                 IF hits = {} THEN order ELSE SubSeq(order, 1, SetMin(hits))

\* a scan of two leaves of two members each that returned true on a pair
\* that is neither the first nor the last in scan order, after a pair was
\* passed over for its masks
NarrowPhaseResultWitness ==
    /\ qn.pc = "returned"
    /\ qn.scan.result
    /\ getNumParticles(a.members.tree, qn.cur_node_a) = 2
    /\ getNumParticles(b.members.tree, qn.cur_node_b) = 2
    /\ Len(qn.scan.tested) >= 2
    /\ Len(qn.scan.tested) < Len(ScanOrder)
    /\ Len(ScanOrder) < 4

\* a scan that returned false after testing every pair
NarrowPhaseAllPairs ==
    /\ qn.pc = "returned"
    /\ ~qn.scan.result
    /\ Len(qn.scan.tested) = 4

\* the leaf member lists of an instance hold each member index once
LeavesPartition(inst) ==
    LET tree == inst.members.tree
        listed == [n \in Range(tree.leafNodes) |-> Range(tree.particles[n])]
    IN /\ UNION Range(listed) = 0..(inst.members.N - 1)
       /\ \A n \in DOMAIN listed :
             /\ Cardinality(listed[n]) = getNumParticles(tree, n)
             /\ \A m \in DOMAIN listed : n # m => listed[n] \cap listed[m] = {}

\* the box of every leaf of the driving hierarchy, moved to the frame of the
\* other one, overlaps the box of every node of the other one
AllBoxesOverlap ==
    LET aDrives == getNumLeaves(a.members.tree) <= getNumLeaves(b.members.tree)
        A == IF aDrives THEN a ELSE b
        B == IF aDrives THEN b ELSE a
        r == IF aDrives THEN r_ab ELSE -r_ab
    IN \A la \in Range(A.members.tree.leafNodes) :
          \A n \in DOMAIN B.members.tree.obb :
              overlap(TransformedOBB(la, r, A, B), getOBB(B.members.tree, n))

\* the pairs (member of a, member of b)
MemberPairs == (0..(a.members.N - 1)) \X (0..(b.members.N - 1))

RECURSIVE TestedPairs(_)
\* the pairs handed to the primitive test over a log of calls, each as
\* (member of a, member of b)
TestedPairs(log) ==
    IF log = <<>> THEN <<>>
    ELSE LET c == Head(log)
             pairs == IF c.first = "a" THEN c.tested
                      ELSE [k \in 1..Len(c.tested) |-> <<c.tested[k][2], c.tested[k][1]>>]
         IN pairs \o TestedPairs(Tail(log))

\* the number of times a pair is in a sequence of pairs
Times(pairs, pair) == Cardinality({k \in 1..Len(pairs) : pairs[k] = pair})

\* the case of the claim: partitions, all boxes overlapping, no overlapping
\* pair among the mask-compatible ones
FullScanCase ==
    /\ AllDone
    /\ LeavesPartition(a) /\ LeavesPartition(b)
    /\ AllBoxesOverlap
    /\ \A pair \in MemberPairs : Compatible(pair) => ~MembersOverlap(pair)

(***************************************************************************)
(* C26.  Exactly-once pair coverage: when the leaf member lists of each    *)
(* hierarchy partition its member indices, all boxes overlap and no        *)
(* primitive test returns true, a sequential test_overlap call hands every *)
(* mask-compatible pair (member i of a, member j of b) to the primitive    *)
(* test exactly once and no mask-incompatible pair.                        *)
(***************************************************************************)
PairCoverage ==
    FullScanCase =>
        \A pair \in MemberPairs :
            Times(TestedPairs(calls[0]), pair) = IF Compatible(pair) THEN 1 ELSE 0

\* a full scan of two hierarchies of two leaves each, with a pair left out
\* for its masks and the others tested
PairCoverageWitness ==
    /\ FullScanCase
    /\ getNumLeaves(a.members.tree) >= 2
    /\ getNumLeaves(b.members.tree) >= 2
    /\ \E pair \in MemberPairs : ~Compatible(pair)
    /\ Len(TestedPairs(calls[0])) >= 3

\* a full scan driven by the leaves of b
PairCoverageFromB ==
    /\ FullScanCase
    /\ getNumLeaves(a.members.tree) > getNumLeaves(b.members.tree)
    /\ Len(TestedPairs(calls[0])) >= 2

\* one of the two hierarchies has no leaf
SomeEmpty == getNumLeaves(a.members.tree) = 0 \/ getNumLeaves(b.members.tree) = 0

(***************************************************************************)
(* C27.  Empty composites: if the hierarchy of either composite has no     *)
(* leaf, test_overlap returns false without calling query_node, so that    *)
(* query_node is never entered with a hierarchy b of zero nodes.           *)
(***************************************************************************)
EmptyComposites ==
    /\ SomeEmpty => \A w \in Workers : ~ret[w] /\ calls[w] = <<>>
    /\ \A w \in Workers : \A k \in 1..Len(calls[w]) :
          /\ getNumNodes(Inst(calls[w][k].second).members.tree) >= 1
          /\ getNumNodes(Inst(calls[w][k].first).members.tree) >= 1

\* the call has returned on an empty b and an a of two leaves or more placed
\* on top of it
EmptyCompositesWitness ==
    /\ AllDone
    /\ getNumLeaves(b.members.tree) = 0
    /\ getNumNodes(b.members.tree) = 0
    /\ getNumLeaves(a.members.tree) >= 2
    /\ r_ab = 0
    /\ ~ret[0]

\* the call has returned on an empty a
EmptyCompositesFirst ==
    /\ AllDone
    /\ getNumLeaves(a.members.tree) = 0
    /\ getNumLeaves(b.members.tree) >= 2
    /\ ~ret[0]

\* the fraction edge is at least r
EdgeAtLeast(edge, r) == edge[1] >= r * edge[2]

\* updateBins has run
Binned == op.name = "updateBins"

(***************************************************************************)
(* C28.  Bin indices stay in range: for every box, cutoff and position of  *)
(* a particle inside the box, including boxes whose three lengths give     *)
(* different bin counts, updateBins computes ib < m_Mx, jb < m_My and      *)
(* kb < m_Mz (the sanity assertion holds), the bin index is below          *)
(* m_Mx*m_My*m_Mz, and the edge of a bin along each axis is at least       *)
(* r_cut + r_buff whenever the box is that long along the axis.            *)
(***************************************************************************)
BinIndicesInRange ==
    Binned =>
        LET M == op.M
            p == op.particle
            rmax == nl.m_r_cut + nl.m_r_buff
            box == pdata.box
        IN /\ p.ib < M.m_Mx /\ p.jb < M.m_My /\ p.kb < M.m_Mz
           /\ op.outcome = "binned"
           /\ p.bin < M.m_Mx * M.m_My * M.m_Mz
           /\ box.xhi - box.xlo >= rmax => EdgeAtLeast(op.edges.binx, rmax)
           /\ box.yhi - box.ylo >= rmax => EdgeAtLeast(op.edges.biny, rmax)
           /\ box.zhi - box.zlo >= rmax => EdgeAtLeast(op.edges.binz, rmax)

\* what holds of the code: the x axis, and a box of equal bin counts
BinIndicesEqualCounts ==
    Binned =>
        /\ op.particle.ib < op.M.m_Mx
        /\ pdata.box.xhi - pdata.box.xlo >= nl.m_r_cut + nl.m_r_buff
              => EdgeAtLeast(op.edges.binx, nl.m_r_cut + nl.m_r_buff)
        /\ (op.M.m_My = op.M.m_Mx /\ op.M.m_Mz = op.M.m_Mx) => BinIndicesInRange

\* the assertion fails: the box is longer along x than along y
BinAssertionFails ==
    /\ Binned
    /\ op.M.m_Mx > op.M.m_My
    /\ op.particle.jb > op.M.m_My
    /\ op.outcome = "assertion failed"

\* the index is outside the arrays
BinOutOfArrays ==
    /\ Binned
    /\ op.outcome = "out of range"

\* the bins along y are shorter than the cutoff
BinShorterThanCutoff ==
    /\ Binned
    /\ op.particle.sane
    /\ pdata.box.yhi - pdata.box.ylo >= nl.m_r_cut + nl.m_r_buff
    /\ ~EdgeAtLeast(op.edges.biny, nl.m_r_cut + nl.m_r_buff)

\* the list holds for every particle the neighbours computeSimple gives it
\* for the positions, the exclusions and the storage mode of the state, each
\* as many times
SameAsSimple ==
    \A n, m \in 0..(pdata.N - 1) :
        Count(nl.m_list[n], m) = Count(computeSimple(nl, pdata)[n], m)

(***************************************************************************)
(* C29.  The binned list equals the all-pairs list: for the same           *)
(* positions, box, cutoff, buffer, exclusions and storage mode the list    *)
(* built by updateBins and updateListFromBins holds for every particle     *)
(* the same neighbours, each once, as computeSimple, for every bin count   *)
(* including 1 or 2 bins along an axis.                                    *)
(***************************************************************************)
BinnedEqualsSimple ==
    (JustRebuilt /\ nl.binned) => SameAsSimple

\* what holds of the code: the equality with three bins or more
BinnedEqualsSimpleThreeBins ==
    (JustRebuilt /\ nl.binned /\ NumBins(nl, pdata) >= 3) => SameAsSimple

\* with fewer than three bins the two lists hold the same neighbours
BinnedSameMembers ==
    (JustRebuilt /\ nl.binned) =>
        \A n \in 0..(pdata.N - 1) :
            Members(nl.m_list[n]) = Members(computeSimple(nl, pdata)[n])

\* a binned list of two bins that differs from the all-pairs list
BinnedDiffers ==
    /\ JustRebuilt
    /\ nl.binned
    /\ NumBins(nl, pdata) = 2
    /\ ~SameAsSimple

\* tag2 is in the slots of tag1 exactly when tag1 is in the slots of tag2
ExclusionsSymmetric ==
    \A tag1, tag2 \in 0..(pdata.N - 1) :
        InSlots(nl, tag1, tag2) <=> InSlots(nl, tag2, tag1)

\* the step is an addExclusion that threw
AddExclusionThrew == op'.name = "addExclusion" /\ op'.thrown

\* a call that throws leaves the table and the force flag as they were
ThrowKeepsTable ==
    AddExclusionThrew =>
        /\ nl'.m_exclusions = nl.m_exclusions
        /\ nl'.m_force_update = nl.m_force_update

(***************************************************************************)
(* C30.  Exclusion table symmetry: after any sequence of addExclusion      *)
(* calls, including calls that throw (a tag out of range, or one of the    *)
(* two particles with 4 exclusions already), tag2 is in the slots of tag1  *)
(* exactly when tag1 is in the slots of tag2, and a call that throws       *)
(* leaves the exclusion table and the force-update flag as they were       *)
(* before the call.                                                        *)
(***************************************************************************)
ExclusionSymmetry == []ExclusionsSymmetric /\ [][ThrowKeepsTable]_vars

\* what holds of the code: a call that throws leaves the flag as it was, and
\* the table too unless it is the slots of tag2 that are full; a call that
\* returns stores the pair on both sides and sets the flag
ExclusionThrowStep ==
    /\ AddExclusionThrew =>
          /\ nl'.m_force_update = nl.m_force_update
          /\ nl'.m_exclusions # nl.m_exclusions =>
                \E tag1, tag2 \in 0..(pdata.N - 1) :
                    /\ FreeSlot(nl.m_exclusions[tag2]) = "full"
                    /\ FreeSlot(nl.m_exclusions[tag1]) # "full"
                    /\ nl'.m_exclusions = [nl.m_exclusions EXCEPT ![tag1] = FillSlot(@, tag2)]
    /\ (op'.name = "addExclusion" /\ ~op'.thrown) =>
          /\ nl'.m_force_update
          /\ ExclusionsSymmetric => ExclusionsSymmetric'

ExclusionThrowRule == [][ExclusionThrowStep]_vars

\* a call has thrown with the force flag clear and has changed nothing: the
\* slots of tag1 were full, or a tag was out of range
ExclusionThrowClean ==
    /\ op.name = "addExclusion"
    /\ op.thrown
    /\ ~nl.m_force_update
    /\ ExclusionsSymmetric
    /\ FreeSlot(nl.m_exclusions[0]) = "full"

\* the table after a call that threw on the full slots of tag2
ExclusionOneSided ==
    /\ op.name = "addExclusion"
    /\ op.thrown
    /\ \E tag1 \in 1..(pdata.N - 1) : InSlots(nl, tag1, 0) /\ ~InSlots(nl, 0, tag1)

====
